---- MODULE Spec2Model ----
(***************************************************************************)
(* Model of the kirkify controller (src/controller.py): the pull-based     *)
(* dispatcher with its two-level queue, the lease table, the worker        *)
(* registry, the job documents, the per-job event log and the lease        *)
(* sweeper thread.                                                         *)
(*                                                                         *)
(* Handlers run concurrently (sync handlers in the thread pool, async      *)
(* handlers on the event loop, the sweeper in its own thread).  Each       *)
(* action below is one step of a handler: one `with _state_lock` or        *)
(* `with _queue_lock` block, or one document-store call.  A handler's      *)
(* position and locals live in calls[t]; the sweeper's in sweeper.         *)
(* The document store answers every call; the blob store may fail an       *)
(* upload or a signature, as the handlers provide for.                     *)
(*                                                                         *)
(* Several specifications explore the same actions under different bounds: *)
(* Spec (two handlers racing), SpecSeq (one handler at a time, two         *)
(* workers), SpecRetries (the event log kept), SpecDeath and SpecExpiry    *)
(* (the clock and the sweeper), SpecRecover (expiry, then a second         *)
(* worker), SpecQueue (three jobs), SpecAdmin (cancel and delete),         *)
(* SpecBounded (racing error reports), SpecLog (a growing event log),      *)
(* SpecStatus (heartbeats and gpu_status), SpecStream (the event streams), *)
(* SpecSubmit (submissions next to a polling worker), SpecClone (admin     *)
(* retry), SpecRelease (racing results) and SpecReap (a late error report  *)
(* next to the sweeper).                                                   *)
(***************************************************************************)
EXTENDS Integers, Sequences, FiniteSets, TLC

\* ------------------------------------------------------------------ bounds
\* the sizes of the id spaces: jobs, workers, handler threads
MaxJobs == 3
MaxWorkers == 2
MaxCalls == 2
\* what one specification lets happen (see the Bounds records at the end)
MaxCallsSeq == 1
MaxJobsOne == 1
MaxJobsSubmit == 2
MaxWorkersOne == 1
MaxCapacity == 1
MaxCapacitySeq == 2
MaxActive == 1
MaxActiveSeq == 2
MaxActiveIdle == 0
MaxWants == 2
MaxEventsNone == 0
MaxEventsRetries == 6
MaxEventsRecover == 12
MaxEventsBounded == 9
MaxEventsLog == 201
MaxEventsStream == 4
MaxQueue == 2
MaxQueueAll == 3
MaxNowDeath == 9
MaxNowStatus == 3

\* --------------------------------------------------------- program constants
\* JOB_LEASE_TIMEOUT_SEC comes from the environment; one unit of `now` is one
\* lease timeout
JOB_LEASE_TIMEOUT_SEC == 1
\* HEARTBEAT_STALE_SEC comes from the environment too; the model sets it to
\* one unit of `now`
HEARTBEAT_STALE_SEC == 1
MAX_RETRIES == 3
\* the length the specification gives as the bound of a job's event log; the
\* controller has no such setting
EVENTS_MAX == 200
\* q.limit(50) of the event streams
STREAM_LIMIT == 50
StartTime == 1

JobIds == 1..MaxJobs
WorkerIds == 1..MaxWorkers
Threads == 1..MaxCalls
None == 0
Ips == {"94.110.221.234", "9.9.9.9"}
PRIORITY_IPS == {"94.110.221.234"}
Terminal == {"completed", "failed", "canceled", "timeout"}

VARIABLES
    now,            \* time.time()
    job_queue_p0,   \* _job_queue_p0: deque of job ids (high priority)
    job_queue_p1,   \* _job_queue_p1: deque of job ids (normal)
    leases,         \* _leases: dict job_id -> lease, in insertion order
    workers,        \* _workers: dict worker_id -> info
    jobs,           \* Firestore collection "jobs"
    events,         \* Firestore sub-collection jobs/{id}/events, in ts order
    issued,         \* how many job ids uuid4() has handed to submit
    calls,          \* the in-flight request handlers
    loop,           \* the handler that holds the asyncio event loop, or None
    sweeper         \* the lease-sweeper thread

vars == <<now, job_queue_p0, job_queue_p1, leases, workers, jobs, events,
          issued, calls, loop, sweeper>>

\* ------------------------------------------------------------ lease table
NoLease == [job_id |-> None, worker_id |-> None, deadline_ts |-> 0, retries |-> 0]

Lease(j, w, d, r) == [job_id |-> j, worker_id |-> w, deadline_ts |-> d, retries |-> r]

LeaseIdx(ls, j) == {i \in 1..Len(ls) : ls[i].job_id = j}

\* _leases.get(job_id): the record, or NoLease (Python's None)
LeaseGet(ls, j) ==
    IF LeaseIdx(ls, j) = {} THEN NoLease ELSE ls[CHOOSE i \in LeaseIdx(ls, j) : TRUE]

\* _leases.pop(job_id, None)
LeasePop(ls, j) == SelectSeq(ls, LAMBDA l : l.job_id # j)

\* _leases[job_id] = rec: an existing key keeps its place, a new key goes last
LeaseSet(ls, j, rec) ==
    IF LeaseIdx(ls, j) = {} THEN Append(ls, rec)
    ELSE [i \in 1..Len(ls) |-> IF ls[i].job_id = j THEN rec ELSE ls[i]]

\* `if lease`: a dict with keys is truthy, None is not
Truthy(l) == l.job_id # None

\* the sentinel worker_error and the sweeper leave behind to carry retries
Sentinel(j, r) == Lease(j, None, 0, r)

\* ------------------------------------------------------------- job documents
\* input_path is storage_input_path(job_id, filename): the model writes it as
\* the id of the job whose upload the blob is (None when the field is missing)
NoDoc == [exists |-> FALSE, status |-> "", worker_id |-> None, error |-> "",
          input_path |-> None, output_path |-> FALSE, requested_by_ip |-> ""]

\* set_job(job_id, data): jobs_col().document(job_id).set(data, merge=True).
\* A merge into a missing document creates it with the given fields only.
set_job(js, j, data) ==
    [js EXCEPT ![j] = [f \in DOMAIN NoDoc |->
        IF f = "exists" THEN TRUE
        ELSE IF f \in DOMAIN data THEN data[f] ELSE js[j][f]]]

\* create_job(job): jobs_col().document(job["id"]).set(job)
create_job_OwnInput(js, j, ip, input_path) ==
    [js EXCEPT ![j] = [exists |-> TRUE, status |-> "queued", worker_id |-> None,
                       error |-> "", input_path |-> j, output_path |-> FALSE,
                       requested_by_ip |-> ip]]

create_job(js, j, ip, input_path) ==
    [js EXCEPT ![j] = [exists |-> TRUE, status |-> "queued", worker_id |-> None,
                       error |-> "", input_path |-> input_path, output_path |-> FALSE,
                       requested_by_ip |-> ip]]

\* ------------------------------------------------------------------- events
Event(type, message, retries, position) ==
    [type |-> type, message |-> message, retries |-> retries, queue_position |-> position]

\* push_event(job_id, etype, message, progress, extra): events_col(job_id).add(doc)
\* The model keeps the first `cap` events of a job's log.
push_event(es, j, type, message, retries, position, cap) ==
    IF Len(es[j]) < cap
    THEN [es EXCEPT ![j] = Append(@, Event(type, message, retries, position))]
    ELSE es

\* -------------------------------------------------------------------- queues
\* enqueue_job(job_id, priority)
enqueue_p1_Lost(p1, j, priority) == p1

enqueue_p0_Always(p0, j, priority) == Append(p0, j)

enqueue_p0(p0, j, priority) == IF priority THEN Append(p0, j) ELSE p0

enqueue_p1(p1, j, priority) == IF priority THEN p1 ELSE Append(p1, j)

\* dequeue_job(): the id it returns (None when both queues are empty)
dequeue_job_NormalFirst(p0, p1) ==
    IF p1 # <<>> THEN Head(p1) ELSE IF p0 # <<>> THEN Head(p0) ELSE None

dequeue_job(p0, p1) ==
    IF p0 # <<>> THEN Head(p0) ELSE IF p1 # <<>> THEN Head(p1) ELSE None

dequeue_p0(p0, p1) == IF p0 # <<>> THEN Tail(p0) ELSE p0

dequeue_p1(p0, p1) == IF p0 # <<>> THEN p1 ELSE IF p1 # <<>> THEN Tail(p1) ELSE p1

\* deque.remove(x): removes the first occurrence only; ValueError is swallowed
RemoveFirst(q, j) ==
    IF \E i \in 1..Len(q) : q[i] = j
    THEN LET k == CHOOSE i \in 1..Len(q) : q[i] = j /\ \A m \in 1..(i-1) : q[m] # j
         IN [i \in 1..(Len(q)-1) |-> IF i < k THEN q[i] ELSE q[i+1]]
    ELSE q

InQueue(q, j) == \E i \in 1..Len(q) : q[i] = j

\* ------------------------------------------------------------------- workers
NoWorker == [registered |-> FALSE, capacity |-> 0, active |-> 0, last_seen_ts |-> 0]

Max(a, b) == IF a >= b THEN a ELSE b

Min(a, b) == IF a <= b THEN a ELSE b

\* max(0, int(_workers[wid].get("active", 0)) - 1)
DecActive(ws, w) == [ws EXCEPT ![w].active = Max(0, @ - 1)]

\* int(_workers[wid].get("active", 0)) + 1
IncActive(ws, w) == [ws EXCEPT ![w].active = @ + 1]

\* sum(int(w.get("active", 0)) for w in _workers.values())
RECURSIVE SumActive(_, _)
SumActive(ws, n) == IF n = 0 THEN 0 ELSE ws[n].active + SumActive(ws, n - 1)

\* `if retries < 3` of worker_error and of the sweeper
RetriesLeft_OneFewer(retries) == retries + 1 < MAX_RETRIES

RetriesLeft(retries) == retries < MAX_RETRIES

\* ----------------------------------------------------------------- handlers
\* the body of a gpu_status response
NoBody == [workers_online |-> 0, active_jobs |-> 0, total_capacity |-> 0,
           queued_jobs |-> 0]

\* admin, status, output_path, last_ts, pending, new_any, frames: the locals
\* of an event stream and the frames it has sent; new_id, input_path: the
\* locals of job_retry
Idle == [op |-> "", pc |-> "idle", wid |-> None, jid |-> None, retries |-> 0,
         err |-> "", ip |-> "", position |-> 0, ret |-> "", body |-> NoBody,
         admin |-> FALSE, status |-> "", output_path |-> FALSE, last_ts |-> None,
         pending |-> <<>>, new_any |-> FALSE, frames |-> <<>>,
         new_id |-> None, input_path |-> None]

Call(op, pc, wid, jid) == [Idle EXCEPT !.op = op, !.pc = pc, !.wid = wid, !.jid = jid]

\* the handler returns (or raises HTTPException): the response is `ret`
Return(c, ret) == [Idle EXCEPT !.op = c.op, !.pc = "ret", !.ret = ret]

At(t, op, pc) == calls[t].op = op /\ calls[t].pc = pc

\* a request is handed to the first free thread of the pool
Free(t) == calls[t].pc = "idle" /\ \A u \in Threads : u < t => calls[u].pc # "idle"

Init ==
    /\ now = StartTime
    /\ job_queue_p0 = <<>>
    /\ job_queue_p1 = <<>>
    /\ leases = <<>>
    /\ workers = [w \in WorkerIds |-> NoWorker]
    /\ jobs = [j \in JobIds |-> NoDoc]
    /\ events = [j \in JobIds |-> <<>>]
    /\ issued = 0
    /\ calls = [t \in Threads |-> Idle]
    /\ loop = None
    /\ sweeper = [pc |-> "sleep", expired |-> <<>>, jid |-> None, wid |-> None,
                  retries |-> 0]

\* the queues are unbounded deques; the model stops pushing at `room` entries
QueueRoom(room) == Len(job_queue_p0) + Len(job_queue_p1) < room

\* a request handler is past its first step and has not returned
InFlight(t) == calls[t].pc \notin {"idle", "ret"}

\* the response has been sent; the thread is free for the next request
Respond(t) ==
    /\ calls[t].pc = "ret"
    /\ calls' = [calls EXCEPT ![t] = Idle]
    /\ UNCHANGED <<now, job_queue_p0, job_queue_p1, leases, workers, jobs, events,
                   issued, loop, sweeper>>

\* time passes.  With `quiet`, a request handler takes less than one unit of
\* time: the clock moves only between requests.
Tick(max, quiet) ==
    /\ now < max
    /\ quiet => \A t \in Threads : ~InFlight(t)
    /\ now' = now + 1
    /\ UNCHANGED <<job_queue_p0, job_queue_p1, leases, workers, jobs, events,
                   issued, calls, loop, sweeper>>

\* ------------------------------------------------------- worker registration
Registered == {w \in WorkerIds : workers[w].registered}

\* POST /api/worker/register: wid = uuid4().hex is a fresh id
worker_register(capacity, maxWorkers) ==
    /\ Cardinality(Registered) < maxWorkers
    /\ LET wid == Cardinality(Registered) + 1
       IN workers' = [workers EXCEPT ![wid] =
              [registered |-> TRUE, capacity |-> Max(1, capacity), active |-> 0,
               last_seen_ts |-> now]]
    /\ UNCHANGED <<now, job_queue_p0, job_queue_p1, leases, jobs, events,
                   issued, calls, loop, sweeper>>

\* POST /api/worker/heartbeat (lines 531-541)
worker_heartbeat(t, worker_id) ==
    /\ Free(t)
    /\ IF ~workers[worker_id].registered
       THEN /\ calls' = [calls EXCEPT ![t] =
                    Return(Call("heartbeat", "", worker_id, None), "404 unknown worker_id")]
            /\ UNCHANGED workers
       ELSE /\ workers' = [workers EXCEPT ![worker_id].last_seen_ts = now]
            /\ calls' = [calls EXCEPT ![t] =
                    Return(Call("heartbeat", "", worker_id, None), "ok")]
    /\ UNCHANGED <<now, job_queue_p0, job_queue_p1, leases, jobs, events,
                   issued, loop, sweeper>>

\* ---------------------------------------------------------------- gpu_status
\* now - w.get("last_seen_ts", 0.0) < HEARTBEAT_STALE_SEC (line 481)
Online(w, t0) == t0 - w.last_seen_ts < HEARTBEAT_STALE_SEC

\* sum(1 for w in _workers.values() if online) (lines 478-482)
CountOnline(ws, t0) == Cardinality({w \in WorkerIds : ws[w].registered /\ Online(ws[w], t0)})

\* sum(int(w.get("capacity", 1)) for w in _workers.values()) (line 484)
RECURSIVE SumCapacity(_, _)
SumCapacity(ws, n) ==
    IF n = 0 THEN 0
    ELSE (IF ws[n].registered THEN ws[n].capacity ELSE 0) + SumCapacity(ws, n - 1)

\* GET /api/gpu_status, lines 476-484: the sums, under _state_lock
gpu_status_begin(t) ==
    /\ Free(t)
    /\ calls' = [calls EXCEPT ![t] =
            [Call("gpu_status", "queued", None, None) EXCEPT !.body =
                [workers_online |-> CountOnline(workers, now),
                 active_jobs |-> SumActive(workers, MaxWorkers),
                 total_capacity |-> SumCapacity(workers, MaxWorkers),
                 queued_jobs |-> 0]]]
    /\ UNCHANGED <<now, job_queue_p0, job_queue_p1, leases, workers, jobs, events,
                   issued, loop, sweeper>>

\* queued = queue_size(); status; return (lines 485-494)
gpu_status_queued(t) ==
    /\ At(t, "gpu_status", "queued")
    /\ calls' = [calls EXCEPT ![t] =
            [Return(@, IF calls[t].body.workers_online > 0 THEN "ready" ELSE "off")
                EXCEPT !.body = [calls[t].body EXCEPT
                    !.queued_jobs = Len(job_queue_p0) + Len(job_queue_p1)]]]
    /\ UNCHANGED <<now, job_queue_p0, job_queue_p1, leases, workers, jobs, events,
                   issued, loop, sweeper>>

\* ------------------------------------------------------------------ submit
\* POST /api/jobs, /api/swap (_create_job_common, async): after the awaited
\* upload.read() the handler runs on the event loop to its end.  This step is
\* the read, the blob upload and create_job.
submit_begin(t, ip, readOk, uploadOk, maxJobs) ==
    /\ Free(t)
    /\ loop = None
    /\ IF ~readOk
       THEN /\ calls' = [calls EXCEPT ![t] =
                    Return(Call("submit", "", None, None), "400 read upload failed")]
            /\ UNCHANGED <<jobs, issued, loop>>
       ELSE IF ~uploadOk
       THEN /\ calls' = [calls EXCEPT ![t] =
                    Return(Call("submit", "", None, None), "500 GCS upload failed")]
            /\ UNCHANGED <<jobs, issued, loop>>
       ELSE /\ issued < maxJobs
            /\ issued' = issued + 1
            /\ jobs' = create_job(jobs, issued + 1, ip, issued + 1)
            /\ loop' = t
            /\ calls' = [calls EXCEPT ![t] =
                    [Call("submit", "enqueue", None, issued + 1) EXCEPT
                        !.ip = ip]]
    /\ UNCHANGED <<now, job_queue_p0, job_queue_p1, leases, workers, events, sweeper>>

\* queue_position of the submit event (line 770)
Position_AfterPush(is_prio, p0_len, p1_len, active_now) ==
    IF is_prio THEN p0_len + active_now + 2 ELSE p0_len + p1_len + active_now + 2

Position(is_prio, p0_len, p1_len, active_now) ==
    IF is_prio THEN p0_len + active_now + 1 ELSE p0_len + p1_len + active_now + 1

\* with _queue_lock: position, then the push onto P0 or P1
submit_enqueue(t, room) ==
    /\ At(t, "submit", "enqueue")
    /\ QueueRoom(room)
    /\ LET is_prio == calls[t].ip \in PRIORITY_IPS
           position == Position(is_prio, Len(job_queue_p0), Len(job_queue_p1),
                                SumActive(workers, MaxWorkers))
       IN /\ job_queue_p0' = enqueue_p0(job_queue_p0, calls[t].jid, is_prio)
          /\ job_queue_p1' = enqueue_p1(job_queue_p1, calls[t].jid, is_prio)
          /\ calls' = [calls EXCEPT ![t].pc = "push", ![t].position = position]
    /\ UNCHANGED <<now, leases, workers, jobs, events, issued, loop, sweeper>>

\* push_event(job_id, "info", "job queued", 1, {...}); return
submit_push(t, cap) ==
    /\ At(t, "submit", "push")
    /\ events' = push_event(events, calls[t].jid, "info", "job queued", -1,
                            calls[t].position, cap)
    /\ calls' = [calls EXCEPT ![t] = Return(@, "queued")]
    /\ loop' = None
    /\ UNCHANGED <<now, job_queue_p0, job_queue_p1, leases, workers, jobs,
                   issued, sweeper>>

\* ------------------------------------------------------------------- lease
\* min(wants, free_slots, 1) with free_slots = max(0, capacity - active)
Grant_IgnoresActive(wants, capacity, active) == Min(Max(0, wants), 1)

Grant(wants, capacity, active) == Min(Min(Max(0, wants), Max(0, capacity - active)), 1)

\* POST /api/worker/lease, lines 546-565: the first `with _state_lock` block
worker_lease_begin(t, wid, wants, active) ==
    /\ Free(t)
    /\ IF ~workers[wid].registered
       THEN /\ calls' = [calls EXCEPT ![t] =
                    Return(Call("lease", "", wid, None), "404 unknown worker_id")]
            /\ UNCHANGED workers
       ELSE /\ workers' = [workers EXCEPT ![wid].active = active,
                                          ![wid].last_seen_ts = now]
            /\ calls' = [calls EXCEPT ![t] =
                    IF Grant(wants, workers[wid].capacity, active) <= 0
                    THEN Return(Call("lease", "", wid, None), "lease none wait 2")
                    ELSE Call("lease", "dequeue", wid, None)]
    /\ UNCHANGED <<now, job_queue_p0, job_queue_p1, leases, jobs, events,
                   issued, loop, sweeper>>

\* job_id = dequeue_job() (lines 567-569)
worker_lease_dequeue(t) ==
    /\ At(t, "lease", "dequeue")
    /\ LET job_id == dequeue_job(job_queue_p0, job_queue_p1)
       IN /\ job_queue_p0' = dequeue_p0(job_queue_p0, job_queue_p1)
          /\ job_queue_p1' = dequeue_p1(job_queue_p0, job_queue_p1)
          /\ calls' = [calls EXCEPT ![t] =
                IF job_id = None THEN Return(@, "lease none wait 2")
                ELSE [@ EXCEPT !.pc = "load", !.jid = job_id]]
    /\ UNCHANGED <<now, leases, workers, jobs, events, issued, loop, sweeper>>

\* jdoc = jobs_col().document(job_id).get(), the input_path test and
\* sign_url(input_path) (lines 571-588); signing is the blob store's answer
worker_lease_load(t, signOk) ==
    /\ At(t, "lease", "load")
    /\ calls' = [calls EXCEPT ![t] =
            IF ~jobs[calls[t].jid].exists THEN Return(@, "lease none wait 2")
            ELSE IF jobs[calls[t].jid].input_path = None
                 THEN [@ EXCEPT !.pc = "fail_set", !.err = "missing input_path"]
            ELSE IF ~signOk
                 THEN [@ EXCEPT !.pc = "fail_set", !.err = "sign_url failed"]
            ELSE [@ EXCEPT !.pc = "grant"]]
    /\ UNCHANGED <<now, job_queue_p0, job_queue_p1, leases, workers, jobs, events,
                   issued, loop, sweeper>>

\* set_job(job_id, {"status": "failed", "error": ...}) (lines 579, 586)
worker_lease_fail_set_HalfAssigned(t) ==
    /\ At(t, "lease", "fail_set")
    /\ jobs' = set_job(jobs, calls[t].jid, [status |-> "failed", error |-> calls[t].err])
    /\ workers' = IncActive(workers, calls[t].wid)
    /\ calls' = [calls EXCEPT ![t].pc = "fail_push"]
    /\ UNCHANGED <<now, job_queue_p0, job_queue_p1, leases, events,
                   issued, loop, sweeper>>

worker_lease_fail_set(t) ==
    /\ At(t, "lease", "fail_set")
    /\ jobs' = set_job(jobs, calls[t].jid, [status |-> "failed", error |-> calls[t].err])
    /\ calls' = [calls EXCEPT ![t].pc = "fail_push"]
    /\ UNCHANGED <<now, job_queue_p0, job_queue_p1, leases, workers, events,
                   issued, loop, sweeper>>

\* push_event(job_id, "error", ...); return lease None, wait_sec 1
worker_lease_fail_push(t, cap) ==
    /\ At(t, "lease", "fail_push")
    /\ events' = push_event(events, calls[t].jid, "error", calls[t].err, -1, -1, cap)
    /\ calls' = [calls EXCEPT ![t] = Return(@, "lease none wait 1")]
    /\ UNCHANGED <<now, job_queue_p0, job_queue_p1, leases, workers, jobs,
                   issued, loop, sweeper>>

\* the lease record written at lines 592-596
NewLease(ls, j, wid, t0) ==
    Lease(j, wid, t0 + JOB_LEASE_TIMEOUT_SEC, LeaseGet(ls, j).retries)

\* with _state_lock: active += 1; _leases[job_id] = {...} (lines 590-596)
worker_lease_grant(t) ==
    /\ At(t, "lease", "grant")
    /\ workers' = IncActive(workers, calls[t].wid)
    /\ leases' = LeaseSet(leases, calls[t].jid,
                          NewLease(leases, calls[t].jid, calls[t].wid, now))
    /\ calls' = [calls EXCEPT ![t].pc = "set_processing"]
    /\ UNCHANGED <<now, job_queue_p0, job_queue_p1, jobs, events, issued, loop, sweeper>>

\* set_job(job_id, {"status": "processing", ..., "worker_id": wid}) (598-605)
worker_lease_set_processing(t) ==
    /\ At(t, "lease", "set_processing")
    /\ jobs' = set_job(jobs, calls[t].jid,
                       [status |-> "processing", worker_id |-> calls[t].wid])
    /\ calls' = [calls EXCEPT ![t].pc = "push_processing"]
    /\ UNCHANGED <<now, job_queue_p0, job_queue_p1, leases, workers, events,
                   issued, loop, sweeper>>

\* push_event(job_id, "state", "processing", 40); return the lease
worker_lease_push_processing(t, cap) ==
    /\ At(t, "lease", "push_processing")
    /\ events' = push_event(events, calls[t].jid, "state", "processing", -1, -1, cap)
    /\ calls' = [calls EXCEPT ![t] = Return(@, "lease granted")]
    /\ UNCHANGED <<now, job_queue_p0, job_queue_p1, leases, workers, jobs,
                   issued, loop, sweeper>>

\* ----------------------------------------------------------------- sweeper
\* lines 1241-1246: the ids whose lease has a deadline now > deadline_ts,
\* in the order of the dict
Expired_FirstLeaseOnly(ls, t0) ==
    LET hit == SelectSeq(ls, LAMBDA l : l.deadline_ts # 0 /\ t0 > l.deadline_ts
                                        /\ l.retries = 0)
    IN [i \in 1..Len(hit) |-> hit[i].job_id]

Expired(ls, t0) ==
    LET hit == SelectSeq(ls, LAMBDA l : l.deadline_ts # 0 /\ t0 > l.deadline_ts)
    IN [i \in 1..Len(hit) |-> hit[i].job_id]

\* the sweeper wakes from time.sleep(LEASE_SWEEP_SEC) and scans the table
sweep_scan ==
    /\ sweeper.pc = "sleep"
    /\ sweeper' = [sweeper EXCEPT !.pc = "loop", !.expired = Expired(leases, now)]
    /\ UNCHANGED <<now, job_queue_p0, job_queue_p1, leases, workers, jobs, events,
                   issued, calls, loop>>

\* what the sweeper does next with a popped lease (lines 1251-1261, 1277)
SweepBranch(lease, ws) ==
    IF ~Truthy(lease) THEN "loop"
    ELSE IF lease.worker_id # None /\ ws[lease.worker_id].registered THEN "dec"
    ELSE IF RetriesLeft(lease.retries) THEN "sentinel" ELSE "set_failed"

\* for jid in expired: lease = _leases.pop(jid, None); continue if gone;
\* at the end of the list, back to sleep
sweep_pop ==
    /\ sweeper.pc = "loop"
    /\ IF sweeper.expired = <<>>
       THEN /\ sweeper' = [sweeper EXCEPT !.pc = "sleep", !.jid = None, !.wid = None,
                                       !.retries = 0]
            /\ UNCHANGED leases
       ELSE LET jid == Head(sweeper.expired)
                lease == LeaseGet(leases, jid)
            IN /\ leases' = LeasePop(leases, jid)
               /\ sweeper' = [pc |-> SweepBranch(lease, workers),
                              expired |-> Tail(sweeper.expired),
                              jid |-> IF Truthy(lease) THEN jid ELSE None,
                              wid |-> lease.worker_id,
                              retries |-> IF Truthy(lease) THEN lease.retries ELSE 0]
    /\ UNCHANGED <<now, job_queue_p0, job_queue_p1, workers, jobs, events,
                   issued, calls, loop>>

\* with _state_lock: the holder's active count goes down (lines 1253-1258)
sweep_dec ==
    /\ sweeper.pc = "dec"
    /\ workers' = DecActive(workers, sweeper.wid)
    /\ sweeper' = [sweeper EXCEPT !.pc =
            IF RetriesLeft(sweeper.retries) THEN "sentinel" ELSE "set_failed"]
    /\ UNCHANGED <<now, job_queue_p0, job_queue_p1, leases, jobs, events,
                   issued, calls, loop>>

\* with _state_lock: _leases[jid] = sentinel with retries + 1 (lines 1262-1267)
sweep_sentinel ==
    /\ sweeper.pc = "sentinel"
    /\ leases' = LeaseSet(leases, sweeper.jid, Sentinel(sweeper.jid, sweeper.retries + 1))
    /\ sweeper' = [sweeper EXCEPT !.pc = "set_queued"]
    /\ UNCHANGED <<now, job_queue_p0, job_queue_p1, workers, jobs, events,
                   issued, calls, loop>>

\* set_job(jid, {"status": "queued", "error": None}) (line 1268)
sweep_set_queued ==
    /\ sweeper.pc = "set_queued"
    /\ jobs' = set_job(jobs, sweeper.jid, [status |-> "queued", error |-> ""])
    /\ sweeper' = [sweeper EXCEPT !.pc = "enqueue"]
    /\ UNCHANGED <<now, job_queue_p0, job_queue_p1, leases, workers, events,
                   issued, calls, loop>>

\* enqueue_job(jid) (line 1269)
sweep_enqueue_ByPriority(room) ==
    /\ sweeper.pc = "enqueue"
    /\ QueueRoom(room)
    /\ LET is_prio == jobs[sweeper.jid].requested_by_ip \in PRIORITY_IPS
       IN /\ job_queue_p0' = enqueue_p0(job_queue_p0, sweeper.jid, is_prio)
          /\ job_queue_p1' = enqueue_p1(job_queue_p1, sweeper.jid, is_prio)
    /\ sweeper' = [sweeper EXCEPT !.pc = "push_requeued"]
    /\ UNCHANGED <<now, leases, workers, jobs, events, issued, calls, loop>>

sweep_enqueue(room) ==
    /\ sweeper.pc = "enqueue"
    /\ QueueRoom(room)
    /\ job_queue_p0' = enqueue_p0(job_queue_p0, sweeper.jid, FALSE)
    /\ job_queue_p1' = enqueue_p1(job_queue_p1, sweeper.jid, FALSE)
    /\ sweeper' = [sweeper EXCEPT !.pc = "push_requeued"]
    /\ UNCHANGED <<now, leases, workers, jobs, events, issued, calls, loop>>

\* push_event(jid, "info", "lease expired; requeued", 5, {"retries": retries + 1})
sweep_push_requeued(cap) ==
    /\ sweeper.pc = "push_requeued"
    /\ events' = push_event(events, sweeper.jid, "info", "lease expired; requeued",
                            sweeper.retries + 1, -1, cap)
    /\ sweeper' = [sweeper EXCEPT !.pc = "loop"]
    /\ UNCHANGED <<now, job_queue_p0, job_queue_p1, leases, workers, jobs,
                   issued, calls, loop>>

\* set_job(jid, {"status": "failed", "error": "lease expired"}) (lines 1278-1281)
sweep_set_failed ==
    /\ sweeper.pc = "set_failed"
    /\ jobs' = set_job(jobs, sweeper.jid, [status |-> "failed", error |-> "lease expired"])
    /\ sweeper' = [sweeper EXCEPT !.pc = "push_failed"]
    /\ UNCHANGED <<now, job_queue_p0, job_queue_p1, leases, workers, events,
                   issued, calls, loop>>

\* push_event(jid, "error", "lease expired") (line 1282)
sweep_push_failed(cap) ==
    /\ sweeper.pc = "push_failed"
    /\ events' = push_event(events, sweeper.jid, "error", "lease expired", -1, -1, cap)
    /\ sweeper' = [sweeper EXCEPT !.pc = "loop"]
    /\ UNCHANGED <<now, job_queue_p0, job_queue_p1, leases, workers, jobs,
                   issued, calls, loop>>

\* ------------------------------------------------------------------ result
\* the test of line 629: `not lease or not w or lease.get("worker_id") != worker_id`
InvalidLease_AnyHolder(lease, w, worker_id) == ~Truthy(lease) \/ ~w.registered

InvalidLease(lease, w, worker_id) ==
    ~Truthy(lease) \/ ~w.registered \/ lease.worker_id # worker_id

\* POST /api/worker/result (async), lines 626-630: the lease and the worker
\* are read under _state_lock and checked, up to the awaited file.read()
worker_result_begin(t, worker_id, job_id) ==
    /\ Free(t)
    /\ loop = None
    /\ calls' = [calls EXCEPT ![t] =
            IF InvalidLease(LeaseGet(leases, job_id), workers[worker_id], worker_id)
            THEN Return(Call("result", "", worker_id, job_id),
                        "400 invalid lease or worker_id")
            ELSE Call("result", "read", worker_id, job_id)]
    /\ UNCHANGED <<now, job_queue_p0, job_queue_p1, leases, workers, jobs, events,
                   issued, loop, sweeper>>

\* the handler resumes on the event loop: file.read(), then the output upload
\* (lines 632-642); on success set_job(completed) (lines 655-662)
worker_result_upload(t, readOk, uploadOk) ==
    /\ At(t, "result", "read")
    /\ loop = None
    /\ IF ~readOk
       THEN /\ calls' = [calls EXCEPT ![t] = Return(@, "400 read upload failed")]
            /\ UNCHANGED <<jobs, loop>>
       ELSE IF ~uploadOk
       THEN /\ calls' = [calls EXCEPT ![t].pc = "fail_dec"]
            /\ loop' = t
            /\ UNCHANGED jobs
       ELSE /\ jobs' = set_job(jobs, calls[t].jid,
                               [status |-> "completed", output_path |-> TRUE])
            /\ calls' = [calls EXCEPT ![t].pc = "push_done"]
            /\ loop' = t
    /\ UNCHANGED <<now, job_queue_p0, job_queue_p1, leases, workers, events,
                   issued, sweeper>>

\* with _state_lock: active goes down, the lease is popped (643-647, 667-671)
ReleaseLease_KeepsLease(t) ==
    /\ workers' = DecActive(workers, calls[t].wid)
    /\ leases' = leases

ReleaseLease(t) ==
    /\ workers' = DecActive(workers, calls[t].wid)
    /\ leases' = LeasePop(leases, calls[t].jid)

\* upload failure, lines 643-647
worker_result_fail_dec(t) ==
    /\ At(t, "result", "fail_dec")
    /\ ReleaseLease(t)
    /\ calls' = [calls EXCEPT ![t].pc = "fail_set"]
    /\ UNCHANGED <<now, job_queue_p0, job_queue_p1, jobs, events, issued, loop, sweeper>>

\* set_job(job_id, {"status": "failed", "error": "output upload error"})
worker_result_fail_set(t) ==
    /\ At(t, "result", "fail_set")
    /\ jobs' = set_job(jobs, calls[t].jid,
                       [status |-> "failed", error |-> "output upload error"])
    /\ calls' = [calls EXCEPT ![t].pc = "fail_push"]
    /\ UNCHANGED <<now, job_queue_p0, job_queue_p1, leases, workers, events,
                   issued, loop, sweeper>>

\* push_event(job_id, "error", "upload output error"); return upload_failed
worker_result_fail_push(t, cap) ==
    /\ At(t, "result", "fail_push")
    /\ events' = push_event(events, calls[t].jid, "error", "upload output error", -1, -1, cap)
    /\ calls' = [calls EXCEPT ![t] = Return(@, "upload_failed")]
    /\ loop' = None
    /\ UNCHANGED <<now, job_queue_p0, job_queue_p1, leases, workers, jobs,
                   issued, sweeper>>

\* push_event(job_id, "done", "completed", 100, ...) (lines 663-665)
worker_result_push_done(t, cap) ==
    /\ At(t, "result", "push_done")
    /\ events' = push_event(events, calls[t].jid, "done", "completed", -1, -1, cap)
    /\ calls' = [calls EXCEPT ![t].pc = "dec"]
    /\ UNCHANGED <<now, job_queue_p0, job_queue_p1, leases, workers, jobs,
                   issued, loop, sweeper>>

\* lines 667-673: release the lease and return ok
worker_result_dec(t) ==
    /\ At(t, "result", "dec")
    /\ ReleaseLease(t)
    /\ calls' = [calls EXCEPT ![t] = Return(@, "ok")]
    /\ loop' = None
    /\ UNCHANGED <<now, job_queue_p0, job_queue_p1, jobs, events, issued, sweeper>>

\* ------------------------------------------------------------ worker_error
\* retries = int(lease.get("retries", 0)) if lease else 0 (line 694)
RetriesOf_Zero(lease) == 0

RetriesOf(lease) == IF Truthy(lease) THEN lease.retries ELSE 0

\* POST /api/worker/error, lines 684-688: the lease and the worker are read
\* under _state_lock; an unknown worker is a 404
worker_error_begin(t, worker_id, job_id) ==
    /\ Free(t)
    /\ calls' = [calls EXCEPT ![t] =
            IF ~workers[worker_id].registered
            THEN Return(Call("error", "", worker_id, job_id), "404 unknown worker")
            ELSE [Call("error", "pop", worker_id, job_id) EXCEPT
                    !.retries = RetriesOf(LeaseGet(leases, job_id))]]
    /\ UNCHANGED <<now, job_queue_p0, job_queue_p1, leases, workers, jobs, events,
                   issued, loop, sweeper>>

\* with _state_lock: the caller's active goes down, the lease is popped (689-693)
worker_error_pop(t) ==
    /\ At(t, "error", "pop")
    /\ ReleaseLease(t)
    /\ calls' = [calls EXCEPT ![t].pc =
            IF RetriesLeft(calls[t].retries) THEN "set_queued" ELSE "set_failed"]
    /\ UNCHANGED <<now, job_queue_p0, job_queue_p1, jobs, events, issued, loop, sweeper>>

\* set_job(job_id, {"status": "queued", "error": None}) (line 696)
worker_error_set_queued(t) ==
    /\ At(t, "error", "set_queued")
    /\ jobs' = set_job(jobs, calls[t].jid, [status |-> "queued", error |-> ""])
    /\ calls' = [calls EXCEPT ![t].pc = "sentinel"]
    /\ UNCHANGED <<now, job_queue_p0, job_queue_p1, leases, workers, events,
                   issued, loop, sweeper>>

\* with _state_lock: _leases[job_id] = sentinel with retries + 1 (697-702)
worker_error_sentinel(t) ==
    /\ At(t, "error", "sentinel")
    /\ leases' = LeaseSet(leases, calls[t].jid,
                          Sentinel(calls[t].jid, calls[t].retries + 1))
    /\ calls' = [calls EXCEPT ![t].pc = "enqueue"]
    /\ UNCHANGED <<now, job_queue_p0, job_queue_p1, workers, jobs, events,
                   issued, loop, sweeper>>

\* enqueue_job(req.job_id) (line 703)
worker_error_enqueue(t, room) ==
    /\ At(t, "error", "enqueue")
    /\ QueueRoom(room)
    /\ job_queue_p0' = enqueue_p0(job_queue_p0, calls[t].jid, FALSE)
    /\ job_queue_p1' = enqueue_p1(job_queue_p1, calls[t].jid, FALSE)
    /\ calls' = [calls EXCEPT ![t].pc = "push_requeued"]
    /\ UNCHANGED <<now, leases, workers, jobs, events, issued, loop, sweeper>>

\* push_event(job_id, "info", "requeued after error: ...", 5, {"retries": ...})
worker_error_push_requeued(t, cap) ==
    /\ At(t, "error", "push_requeued")
    /\ events' = push_event(events, calls[t].jid, "info", "requeued after error",
                            calls[t].retries + 1, -1, cap)
    /\ calls' = [calls EXCEPT ![t] = Return(@, "ok")]
    /\ UNCHANGED <<now, job_queue_p0, job_queue_p1, leases, workers, jobs,
                   issued, loop, sweeper>>

\* set_job(job_id, {"status": "failed", "error": req.error}) (line 712)
worker_error_set_failed(t) ==
    /\ At(t, "error", "set_failed")
    /\ jobs' = set_job(jobs, calls[t].jid, [status |-> "failed", error |-> "worker error"])
    /\ calls' = [calls EXCEPT ![t].pc = "push_failed"]
    /\ UNCHANGED <<now, job_queue_p0, job_queue_p1, leases, workers, events,
                   issued, loop, sweeper>>

\* push_event(job_id, "error", req.error) (line 713)
worker_error_push_failed(t, cap) ==
    /\ At(t, "error", "push_failed")
    /\ events' = push_event(events, calls[t].jid, "error", "worker error", -1, -1, cap)
    /\ calls' = [calls EXCEPT ![t] = Return(@, "ok")]
    /\ UNCHANGED <<now, job_queue_p0, job_queue_p1, leases, workers, jobs,
                   issued, loop, sweeper>>

\* ------------------------------------------------------------------ cancel
\* POST /api/jobs/{id}/cancel, lines 875-879: the document is read
job_cancel_begin(t, job_id) ==
    /\ Free(t)
    /\ calls' = [calls EXCEPT ![t] =
            IF ~jobs[job_id].exists
            THEN Return(Call("cancel", "", None, job_id), "404 Not found")
            ELSE Call("cancel", "pop", None, job_id)]
    /\ UNCHANGED <<now, job_queue_p0, job_queue_p1, leases, workers, jobs, events,
                   issued, loop, sweeper>>

\* with _state_lock: the lease is popped and its holder's active goes down
\* (lines 880-886)
job_cancel_pop(t) ==
    /\ At(t, "cancel", "pop")
    /\ LET lease == LeaseGet(leases, calls[t].jid)
       IN /\ leases' = LeasePop(leases, calls[t].jid)
          /\ workers' = IF Truthy(lease) /\ lease.worker_id # None
                           /\ workers[lease.worker_id].registered
                        THEN DecActive(workers, lease.worker_id)
                        ELSE workers
    /\ calls' = [calls EXCEPT ![t].pc = "remove"]
    /\ UNCHANGED <<now, job_queue_p0, job_queue_p1, jobs, events, issued, loop, sweeper>>

\* _remove_from_queue(job_id) (lines 259-272)
job_cancel_remove(t) ==
    /\ At(t, "cancel", "remove")
    /\ job_queue_p0' = RemoveFirst(job_queue_p0, calls[t].jid)
    /\ job_queue_p1' = RemoveFirst(job_queue_p1, calls[t].jid)
    /\ calls' = [calls EXCEPT ![t].pc = "set"]
    /\ UNCHANGED <<now, leases, workers, jobs, events, issued, loop, sweeper>>

\* set_job(job_id, {"status": "canceled"}) (line 888)
job_cancel_set(t) ==
    /\ At(t, "cancel", "set")
    /\ jobs' = set_job(jobs, calls[t].jid, [status |-> "canceled"])
    /\ calls' = [calls EXCEPT ![t].pc = "push"]
    /\ UNCHANGED <<now, job_queue_p0, job_queue_p1, leases, workers, events,
                   issued, loop, sweeper>>

\* push_event(job_id, "state", "canceled", 0, ...); return
job_cancel_push(t, cap) ==
    /\ At(t, "cancel", "push")
    /\ events' = push_event(events, calls[t].jid, "state", "canceled", -1, -1, cap)
    /\ calls' = [calls EXCEPT ![t] = Return(@, "canceled")]
    /\ UNCHANGED <<now, job_queue_p0, job_queue_p1, leases, workers, jobs,
                   issued, loop, sweeper>>

\* ------------------------------------------------------------------ delete
\* DELETE /api/jobs/{id}, lines 937-940: the document is read
job_delete_begin(t, job_id) ==
    /\ Free(t)
    /\ calls' = [calls EXCEPT ![t] =
            IF ~jobs[job_id].exists
            THEN Return(Call("delete", "", None, job_id), "404 Not found")
            ELSE Call("delete", "remove", None, job_id)]
    /\ UNCHANGED <<now, job_queue_p0, job_queue_p1, leases, workers, jobs, events,
                   issued, loop, sweeper>>

\* _remove_from_queue(job_id) (line 941)
job_delete_remove(t) ==
    /\ At(t, "delete", "remove")
    /\ job_queue_p0' = RemoveFirst(job_queue_p0, calls[t].jid)
    /\ job_queue_p1' = RemoveFirst(job_queue_p1, calls[t].jid)
    /\ calls' = [calls EXCEPT ![t].pc = "events"]
    /\ UNCHANGED <<now, leases, workers, jobs, events, issued, loop, sweeper>>

\* the blobs are deleted (best effort), then every event document of the job
\* (lines 943-955)
job_delete_events(t) ==
    /\ At(t, "delete", "events")
    /\ events' = [events EXCEPT ![calls[t].jid] = <<>>]
    /\ calls' = [calls EXCEPT ![t].pc = "doc"]
    /\ UNCHANGED <<now, job_queue_p0, job_queue_p1, leases, workers, jobs,
                   issued, loop, sweeper>>

\* jobs_col().document(job_id).delete(); return (lines 956-957)
job_delete_doc(t) ==
    /\ At(t, "delete", "doc")
    /\ jobs' = [jobs EXCEPT ![calls[t].jid] = NoDoc]
    /\ calls' = [calls EXCEPT ![t] = Return(@, "ok")]
    /\ UNCHANGED <<now, job_queue_p0, job_queue_p1, leases, workers, events,
                   issued, loop, sweeper>>

\* ------------------------------------------------------------------- retry
\* POST /api/jobs/{id}/retry, lines 897-902: the document is read
job_retry_begin(t, job_id, maxJobs) ==
    /\ Free(t)
    /\ issued < maxJobs
    /\ calls' = [calls EXCEPT ![t] =
            IF ~jobs[job_id].exists
            THEN Return(Call("retry", "", None, job_id), "404 Not found")
            ELSE IF jobs[job_id].input_path = None
            THEN Return(Call("retry", "", None, job_id), "400 no input_path")
            ELSE [Call("retry", "create", None, job_id) EXCEPT
                    !.ip = jobs[job_id].requested_by_ip,
                    !.input_path = jobs[job_id].input_path]]
    /\ UNCHANGED <<now, job_queue_p0, job_queue_p1, leases, workers, jobs, events,
                   issued, loop, sweeper>>

\* new_id = uuid4().hex; create_job(new_job) (lines 904-922)
job_retry_create(t, maxJobs) ==
    /\ At(t, "retry", "create")
    /\ issued < maxJobs
    /\ issued' = issued + 1
    /\ jobs' = create_job(jobs, issued + 1, calls[t].ip, calls[t].input_path)
    /\ calls' = [calls EXCEPT ![t].pc = "enqueue", ![t].new_id = issued + 1]
    /\ UNCHANGED <<now, job_queue_p0, job_queue_p1, leases, workers, events,
                   loop, sweeper>>

\* enqueue_job(new_id, priority=is_prio) (lines 923-924)
job_retry_enqueue(t, room) ==
    /\ At(t, "retry", "enqueue")
    /\ QueueRoom(room)
    /\ LET is_prio == calls[t].ip \in PRIORITY_IPS
       IN /\ job_queue_p0' = enqueue_p0(job_queue_p0, calls[t].new_id, is_prio)
          /\ job_queue_p1' = enqueue_p1(job_queue_p1, calls[t].new_id, is_prio)
    /\ calls' = [calls EXCEPT ![t].pc = "push"]
    /\ UNCHANGED <<now, leases, workers, jobs, events, issued, loop, sweeper>>

\* push_event(new_id, "info", "job queued (retry)", 1, ...); return
job_retry_push(t, cap) ==
    /\ At(t, "retry", "push")
    /\ events' = push_event(events, calls[t].new_id, "info", "job queued (retry)",
                            -1, -1, cap)
    /\ calls' = [calls EXCEPT ![t] =
            [Return(@, "ok") EXCEPT !.jid = calls[t].jid, !.new_id = calls[t].new_id]]
    /\ UNCHANGED <<now, job_queue_p0, job_queue_p1, leases, workers, jobs,
                   issued, loop, sweeper>>

\* ------------------------------------------------------------ event streams
\* GET /api/jobs/{id}/events (public) and /api/jobs/{id}/events/stream
\* (admin): async generators that poll the document store.  The events of a
\* job are kept in ts order and the store's timestamps are strictly
\* increasing: the ts of an event is its place in the log.

\* events_col(job_id).where("ts", ">", last_ts).order_by("ts").limit(50);
\* without last_ts, from the start of the log
Newer_Inclusive(es, last_ts) ==
    LET from == IF last_ts = None THEN 1 ELSE last_ts
        to == Min(Len(es), from + STREAM_LIMIT - 1)
    IN [i \in 1..(to - from + 1) |-> [ts |-> from + i - 1, event |-> es[from + i - 1]]]

Newer(es, last_ts) ==
    LET from == last_ts + 1
        to == Min(Len(es), from + STREAM_LIMIT - 1)
    IN [i \in 1..(to - from + 1) |-> [ts |-> from + i - 1, event |-> es[from + i - 1]]]

\* the frame the public stream adds when the job is completed (lines 988-992)
OutputUrlFrame == Event("completed", "output_url", -1, -1)

\* the stream ends: the generator returns and the response is complete
Close(c) == [c EXCEPT !.pc = "ret", !.ret = "closed", !.pending = <<>>]

\* the request arrives; gen() sends "retry: 1000" (lines 963-965, 1018-1020)
stream_open(t, job_id, admin) ==
    /\ Free(t)
    /\ loop = None
    /\ calls' = [calls EXCEPT ![t] =
            [Call("stream", "get", None, job_id) EXCEPT !.admin = admin]]
    /\ UNCHANGED <<now, job_queue_p0, job_queue_p1, leases, workers, jobs, events,
                   issued, loop, sweeper>>

\* doc = jobs_col().document(job_id).get(); a missing document ends the
\* stream (lines 967-971, 1022-1026)
stream_get(t) ==
    /\ At(t, "stream", "get")
    /\ loop = None
    /\ IF ~jobs[calls[t].jid].exists
       THEN /\ calls' = [calls EXCEPT ![t] = Close(@)]
            /\ UNCHANGED loop
       ELSE /\ calls' = [calls EXCEPT ![t].pc = "query",
                                      ![t].status = jobs[calls[t].jid].status,
                                      ![t].output_path = jobs[calls[t].jid].output_path]
            /\ loop' = t
    /\ UNCHANGED <<now, job_queue_p0, job_queue_p1, leases, workers, jobs, events,
                   issued, sweeper>>

\* q.stream(): the events after last_ts, at most 50 (lines 973-979, 1028-1034)
stream_query(t) ==
    /\ At(t, "stream", "query")
    /\ calls' = [calls EXCEPT ![t].pc = "yield",
                              ![t].pending = Newer(events[calls[t].jid], calls[t].last_ts),
                              ![t].new_any = FALSE]
    /\ loop' = None
    /\ UNCHANGED <<now, job_queue_p0, job_queue_p1, leases, workers, jobs, events,
                   issued, sweeper>>

\* for e in q.stream(): last_ts = ts; yield the frame (lines 979-985, 1034-1041)
stream_yield(t) ==
    /\ At(t, "stream", "yield")
    /\ loop = None
    /\ calls[t].pending # <<>>
    /\ calls' = [calls EXCEPT ![t].last_ts = Head(calls[t].pending).ts,
                              ![t].frames = Append(@, Head(calls[t].pending).event),
                              ![t].pending = Tail(@),
                              ![t].new_any = TRUE]
    /\ UNCHANGED <<now, job_queue_p0, job_queue_p1, leases, workers, jobs, events,
                   issued, loop, sweeper>>

\* after the loop over the events: does the stream end?  The public stream
\* ends on a terminal status (987-995), the admin stream on a terminal status
\* when this poll brought no event (1043-1045).
Ends(c) == c.status \in Terminal /\ (c.admin => ~c.new_any)

\* the end of one poll: break, or await asyncio_sleep(1.0)
stream_after(t, signOk) ==
    /\ At(t, "stream", "yield")
    /\ loop = None
    /\ calls[t].pending = <<>>
    /\ calls' = [calls EXCEPT ![t] =
            IF ~Ends(@) THEN [@ EXCEPT !.pc = "sleep"]
            ELSE IF ~@.admin /\ @.status = "completed" /\ @.output_path /\ signOk
                 THEN Close([@ EXCEPT !.frames = Append(@, OutputUrlFrame)])
            ELSE Close(@)]
    /\ UNCHANGED <<now, job_queue_p0, job_queue_p1, leases, workers, jobs, events,
                   issued, loop, sweeper>>

\* the sleep is over: the next poll
stream_wake(t) ==
    /\ At(t, "stream", "sleep")
    /\ calls' = [calls EXCEPT ![t].pc = "get"]
    /\ UNCHANGED <<now, job_queue_p0, job_queue_p1, leases, workers, jobs, events,
                   issued, loop, sweeper>>

\* the lease call that hands job jid to worker wid has not answered yet
Early(wid, jid) ==
    \E t \in Threads :
        calls[t].op = "lease" /\ InFlight(t) /\ calls[t].wid = wid /\ calls[t].jid = jid

\* worker wid holds the lease on job jid and the deadline has passed
Overdue(wid, jid) ==
    /\ LeaseGet(leases, jid).worker_id = wid
    /\ now > LeaseGet(leases, jid).deadline_ts

\* the number of leases that name worker wid: the jobs it was handed and has
\* not given back
HeldBy(wid) == Cardinality({i \in 1..Len(leases) : leases[i].worker_id = wid})

\* A request names a job id that submit or retry has handed out: job ids are
\* uuid4().hex values, which nobody knows before they are issued.
Issued(jid) == jid <= issued

\* ----------------------------------------------------------- the whole system
\* b is the record of bounds of one specification
Sweeper(b) ==
    \/ sweep_scan
    \/ sweep_pop
    \/ sweep_dec
    \/ sweep_sentinel
    \/ sweep_set_queued
    \/ sweep_enqueue(b.queue)
    \/ sweep_push_requeued(b.events)
    \/ sweep_set_failed
    \/ sweep_push_failed(b.events)

Register(b) ==
    \E capacity \in 1..b.capacity : worker_register(capacity, b.workers)

Stream(t, b) ==
    \/ \E jid \in 1..b.jobs, admin \in BOOLEAN :
            Issued(jid) /\ stream_open(t, jid, admin)
    \/ stream_get(t)
    \/ stream_query(t)
    \/ stream_yield(t)
    \/ \E signOk \in BOOLEAN : stream_after(t, signOk)
    \/ stream_wake(t)

Heartbeat(t, b) ==
    \E wid \in 1..b.workers : worker_heartbeat(t, wid)

GpuStatus(t) ==
    \/ gpu_status_begin(t)
    \/ gpu_status_queued(t)

Submit(t, b) ==
    \/ \E ip \in b.ips, readOk, uploadOk \in BOOLEAN :
            submit_begin(t, ip, readOk, uploadOk, b.jobs)
    \/ submit_enqueue(t, b.queue)
    \/ submit_push(t, b.events)

\* With b.truthful = TRUE a worker reports as `active` the number of jobs it
\* holds.
WorkerLease(t, b) ==
    \/ \E wid \in 1..b.workers, wants \in 0..MaxWants, active \in 0..b.active :
            /\ b.truthful => active = HeldBy(wid)
            /\ worker_lease_begin(t, wid, wants, active)
    \/ worker_lease_dequeue(t)
    \/ \E signOk \in BOOLEAN : worker_lease_load(t, signOk)
    \/ worker_lease_fail_set(t)
    \/ worker_lease_fail_push(t, b.events)
    \/ worker_lease_grant(t)
    \/ worker_lease_set_processing(t)
    \/ worker_lease_push_processing(t, b.events)

\* A worker learns a job id from the answer to its lease call: with
\* b.early = FALSE it sends no result while that call is still running.  With
\* b.overdue = FALSE a worker that has let its lease expire is dead: it sends
\* no result for it.
WorkerResult(t, b) ==
    \/ \E wid \in 1..b.workers, jid \in 1..b.jobs :
            /\ Issued(jid)
            /\ b.early \/ ~Early(wid, jid)
            /\ b.overdue \/ ~Overdue(wid, jid)
            /\ worker_result_begin(t, wid, jid)
    \/ \E readOk, uploadOk \in BOOLEAN : worker_result_upload(t, readOk, uploadOk)
    \/ worker_result_fail_dec(t)
    \/ worker_result_fail_set(t)
    \/ worker_result_fail_push(t, b.events)
    \/ worker_result_push_done(t, b.events)
    \/ worker_result_dec(t)

\* With b.stray = FALSE a worker reports an error only for a job whose lease
\* names it, once the lease call that told it the job id has answered.
WorkerError(t, b) ==
    \/ \E wid \in 1..b.workers, jid \in 1..b.jobs :
            /\ Issued(jid)
            /\ b.stray \/ (LeaseGet(leases, jid).worker_id = wid /\ ~Early(wid, jid))
            /\ worker_error_begin(t, wid, jid)
    \/ worker_error_pop(t)
    \/ worker_error_set_queued(t)
    \/ worker_error_sentinel(t)
    \/ worker_error_enqueue(t, b.queue)
    \/ worker_error_push_requeued(t, b.events)
    \/ worker_error_set_failed(t)
    \/ worker_error_push_failed(t, b.events)

JobCancel(t, b) ==
    \/ \E jid \in 1..b.jobs : Issued(jid) /\ job_cancel_begin(t, jid)
    \/ job_cancel_pop(t)
    \/ job_cancel_remove(t)
    \/ job_cancel_set(t)
    \/ job_cancel_push(t, b.events)

JobDelete(t, b) ==
    \/ \E jid \in 1..b.jobs : Issued(jid) /\ job_delete_begin(t, jid)
    \/ job_delete_remove(t)
    \/ job_delete_events(t)
    \/ job_delete_doc(t)

JobRetry(t, b) ==
    \/ \E jid \in 1..b.jobs : Issued(jid) /\ job_retry_begin(t, jid, b.jobs)
    \/ job_retry_create(t, b.jobs)
    \/ job_retry_enqueue(t, b.queue)
    \/ job_retry_push(t, b.events)

\* Two request handlers at a time, one worker, one job from a normal IP.  The
\* clock stands still, so no lease expires and the sweeper stays asleep.
RaceBounds ==
    [calls |-> MaxCalls, jobs |-> MaxJobsOne, workers |-> MaxWorkersOne,
     capacity |-> MaxCapacity, active |-> MaxActive, events |-> MaxEventsNone,
     queue |-> MaxQueue, early |-> FALSE, overdue |-> TRUE,
     ips |-> Ips \ PRIORITY_IPS, truthful |-> FALSE, stray |-> TRUE]

Next ==
    \/ Register(RaceBounds)
    \/ \E t \in 1..RaceBounds.calls : Respond(t)
    \/ \E t \in 1..RaceBounds.calls : Submit(t, RaceBounds)
    \/ \E t \in 1..RaceBounds.calls : WorkerLease(t, RaceBounds)
    \/ \E t \in 1..RaceBounds.calls : WorkerResult(t, RaceBounds)
    \/ \E t \in 1..RaceBounds.calls : WorkerError(t, RaceBounds)
    \/ \E t \in 1..RaceBounds.calls : JobCancel(t, RaceBounds)

Spec == Init /\ [][Next]_vars

\* One request handler at a time, two workers, one job, the clock still.
SeqBounds ==
    [calls |-> MaxCallsSeq, jobs |-> MaxJobsOne, workers |-> MaxWorkers,
     capacity |-> MaxCapacitySeq, active |-> MaxActiveSeq, events |-> MaxEventsNone,
     queue |-> MaxQueue, early |-> FALSE, overdue |-> TRUE,
     ips |-> Ips, truthful |-> FALSE, stray |-> TRUE]

NextSeq ==
    \/ Register(SeqBounds)
    \/ \E t \in 1..SeqBounds.calls : Respond(t)
    \/ \E t \in 1..SeqBounds.calls : Submit(t, SeqBounds)
    \/ \E t \in 1..SeqBounds.calls : WorkerLease(t, SeqBounds)
    \/ \E t \in 1..SeqBounds.calls : WorkerResult(t, SeqBounds)
    \/ \E t \in 1..SeqBounds.calls : WorkerError(t, SeqBounds)
    \/ \E t \in 1..SeqBounds.calls : JobCancel(t, SeqBounds)

SpecSeq == Init /\ [][NextSeq]_vars

\* The life of one job's retries counter: one worker, the event log kept.
RetriesBounds ==
    [calls |-> MaxCallsSeq, jobs |-> MaxJobsOne, workers |-> MaxWorkersOne,
     capacity |-> MaxCapacity, active |-> MaxActiveIdle, events |-> MaxEventsRetries,
     queue |-> MaxQueue,
     ips |-> Ips, truthful |-> FALSE, stray |-> TRUE]

NextRetries ==
    \/ Register(RetriesBounds)
    \/ \E t \in 1..RetriesBounds.calls : Respond(t)
    \/ \E t \in 1..RetriesBounds.calls : Submit(t, RetriesBounds)
    \/ \E t \in 1..RetriesBounds.calls : WorkerLease(t, RetriesBounds)
    \/ \E t \in 1..RetriesBounds.calls : WorkerError(t, RetriesBounds)
    \/ \E t \in 1..RetriesBounds.calls : JobCancel(t, RetriesBounds)

SpecRetries == Init /\ [][NextRetries]_vars

\* A worker that takes leases and never answers: submit, lease, the clock and
\* the sweeper.  The sweeper thread is scheduled fairly.
DeathBounds ==
    [calls |-> MaxCallsSeq, jobs |-> MaxJobsOne, workers |-> MaxWorkersOne,
     capacity |-> MaxCapacity, active |-> MaxActive, events |-> MaxEventsNone,
     queue |-> MaxQueue, now |-> MaxNowDeath,
     ips |-> Ips, truthful |-> FALSE, stray |-> TRUE]

NextDeath ==
    \/ Register(DeathBounds)
    \/ \E t \in 1..DeathBounds.calls : Respond(t)
    \/ \E t \in 1..DeathBounds.calls : Submit(t, DeathBounds)
    \/ \E t \in 1..DeathBounds.calls : WorkerLease(t, DeathBounds)
    \/ Sweeper(DeathBounds)
    \/ Tick(DeathBounds.now, FALSE)

SpecDeath == Init /\ [][NextDeath]_vars /\ WF_vars(Sweeper(DeathBounds))

\* The same worker, when a request handler takes less than one unit of time.
NextExpiry ==
    \/ Register(DeathBounds)
    \/ \E t \in 1..DeathBounds.calls : Respond(t)
    \/ \E t \in 1..DeathBounds.calls : Submit(t, DeathBounds)
    \/ \E t \in 1..DeathBounds.calls : WorkerLease(t, DeathBounds)
    \/ Sweeper(DeathBounds)
    \/ Tick(DeathBounds.now, TRUE)

SpecExpiry == Init /\ [][NextExpiry]_vars

\* Expiry and recovery: two workers, leases, results, the sweeper, the event
\* log kept.  A request handler takes less than one unit of time, and a
\* worker answers before its deadline or not at all.
RecoverBounds ==
    [calls |-> MaxCallsSeq, jobs |-> MaxJobsOne, workers |-> MaxWorkers,
     capacity |-> MaxCapacity, active |-> MaxActiveIdle, events |-> MaxEventsRecover,
     queue |-> MaxQueue, now |-> MaxNowDeath, early |-> FALSE, overdue |-> FALSE,
     ips |-> Ips, truthful |-> FALSE, stray |-> TRUE]

NextRecover ==
    \/ Register(RecoverBounds)
    \/ \E t \in 1..RecoverBounds.calls : Respond(t)
    \/ \E t \in 1..RecoverBounds.calls : Submit(t, RecoverBounds)
    \/ \E t \in 1..RecoverBounds.calls : WorkerLease(t, RecoverBounds)
    \/ \E t \in 1..RecoverBounds.calls : WorkerResult(t, RecoverBounds)
    \/ Sweeper(RecoverBounds)
    \/ Tick(RecoverBounds.now, TRUE)

SpecRecover == Init /\ [][NextRecover]_vars

\* The order of the queue: three jobs, one worker that leases them.
QueueBounds ==
    [calls |-> MaxCallsSeq, jobs |-> MaxJobs, workers |-> MaxWorkersOne,
     capacity |-> MaxCapacity, active |-> MaxActiveIdle, events |-> MaxEventsNone,
     queue |-> MaxQueueAll,
     ips |-> Ips, truthful |-> FALSE, stray |-> TRUE]

NextQueue ==
    \/ Register(QueueBounds)
    \/ \E t \in 1..QueueBounds.calls : Respond(t)
    \/ \E t \in 1..QueueBounds.calls : Submit(t, QueueBounds)
    \/ \E t \in 1..QueueBounds.calls : WorkerLease(t, QueueBounds)

SpecQueue == Init /\ [][NextQueue]_vars

\* The admin calls: one request handler at a time, one worker that reports
\* its load truthfully, one job; submit, lease, error, cancel and delete.
AdminBounds ==
    [calls |-> MaxCallsSeq, jobs |-> MaxJobsOne, workers |-> MaxWorkersOne,
     capacity |-> MaxCapacity, active |-> MaxActive, events |-> MaxEventsNone,
     queue |-> MaxQueue,
     ips |-> Ips, truthful |-> TRUE, stray |-> TRUE]

NextAdmin ==
    \/ Register(AdminBounds)
    \/ \E t \in 1..AdminBounds.calls : Respond(t)
    \/ \E t \in 1..AdminBounds.calls : Submit(t, AdminBounds)
    \/ \E t \in 1..AdminBounds.calls : WorkerLease(t, AdminBounds)
    \/ \E t \in 1..AdminBounds.calls : WorkerError(t, AdminBounds)
    \/ \E t \in 1..AdminBounds.calls : JobCancel(t, AdminBounds)
    \/ \E t \in 1..AdminBounds.calls : JobDelete(t, AdminBounds)

SpecAdmin == Init /\ [][NextAdmin]_vars

\* The retries of one job under racing calls: one worker, submit, lease and
\* error, the event log kept.  The worker reports an error only for a job it
\* holds; a second error report may arrive while the first is being handled.
BoundedBounds ==
    [calls |-> MaxCalls, jobs |-> MaxJobsOne, workers |-> MaxWorkersOne,
     capacity |-> MaxCapacity, active |-> MaxActiveIdle, events |-> MaxEventsBounded,
     queue |-> MaxQueue,
     ips |-> Ips \ PRIORITY_IPS, truthful |-> FALSE, stray |-> FALSE]

\* the event logs are unbounded; this specification follows a job until its
\* log holds b.events entries
LogRoom(b) == \A j \in JobIds : Len(events[j]) < b.events

NextBounded ==
    /\ LogRoom(BoundedBounds)
    /\ \/ Register(BoundedBounds)
       \/ \E t \in 1..BoundedBounds.calls : Respond(t)
       \/ \E t \in 1..MaxCallsSeq : Submit(t, BoundedBounds)
       \/ \E t \in 1..MaxCallsSeq : WorkerLease(t, BoundedBounds)
       \/ \E t \in 1..BoundedBounds.calls : WorkerError(t, BoundedBounds)

SpecBounded == Init /\ [][NextBounded]_vars

\* The growth of one job's event log: the job is submitted and then canceled
\* again and again, one request at a time.
LogBounds ==
    [calls |-> MaxCallsSeq, jobs |-> MaxJobsOne, events |-> MaxEventsLog,
     queue |-> MaxQueue, ips |-> Ips \ PRIORITY_IPS]

NextLog ==
    \/ \E t \in 1..LogBounds.calls : Respond(t)
    \/ \E t \in 1..LogBounds.calls : Submit(t, LogBounds)
    \/ \E t \in 1..LogBounds.calls : JobCancel(t, LogBounds)

SpecLog == Init /\ [][NextLog]_vars

\* The pool summary: two workers that register, send heartbeats and lease,
\* the clock, and gpu_status; one request at a time.
StatusBounds ==
    [calls |-> MaxCallsSeq, jobs |-> MaxJobsOne, workers |-> MaxWorkers,
     capacity |-> MaxCapacitySeq, active |-> MaxActive, events |-> MaxEventsNone,
     queue |-> MaxQueue, now |-> MaxNowStatus,
     ips |-> Ips \ PRIORITY_IPS, truthful |-> TRUE, stray |-> TRUE]

NextStatus ==
    \/ Register(StatusBounds)
    \/ \E t \in 1..StatusBounds.calls : Respond(t)
    \/ \E t \in 1..StatusBounds.calls : Submit(t, StatusBounds)
    \/ \E t \in 1..StatusBounds.calls : WorkerLease(t, StatusBounds)
    \/ \E t \in 1..StatusBounds.calls : Heartbeat(t, StatusBounds)
    \/ \E t \in 1..StatusBounds.calls : GpuStatus(t)
    \/ Tick(StatusBounds.now, TRUE)

SpecStatus == Init /\ [][NextStatus]_vars

\* An event stream next to the life of one job: submit, lease and result on
\* one handler, the stream on the other.
StreamBounds ==
    [calls |-> MaxCalls, jobs |-> MaxJobsOne, workers |-> MaxWorkersOne,
     capacity |-> MaxCapacity, active |-> MaxActiveIdle, events |-> MaxEventsStream,
     queue |-> MaxQueue, early |-> FALSE, overdue |-> TRUE,
     ips |-> Ips \ PRIORITY_IPS, truthful |-> FALSE, stray |-> TRUE]

NextStream ==
    \/ Register(StreamBounds)
    \/ \E t \in 1..StreamBounds.calls : Respond(t)
    \/ \E t \in 1..StreamBounds.calls : Submit(t, StreamBounds)
    \/ \E t \in 1..StreamBounds.calls : WorkerLease(t, StreamBounds)
    \/ \E t \in 1..StreamBounds.calls : WorkerResult(t, StreamBounds)
    \/ \E t \in 1..StreamBounds.calls : Stream(t, StreamBounds)

SpecStream == Init /\ [][NextStream]_vars

\* Submissions next to a polling worker: two request handlers at a time, two
\* jobs from either kind of IP, one worker of capacity 1 or 2 that leases
\* them and reports 0 or 1 jobs in hand; the event log kept.
SubmitBounds ==
    [calls |-> MaxCalls, jobs |-> MaxJobsSubmit, workers |-> MaxWorkersOne,
     capacity |-> MaxCapacitySeq, active |-> MaxActive, events |-> MaxEventsStream,
     queue |-> MaxQueue,
     ips |-> Ips, truthful |-> FALSE, stray |-> TRUE]

NextSubmit ==
    \/ Register(SubmitBounds)
    \/ \E t \in 1..SubmitBounds.calls : Respond(t)
    \/ \E t \in 1..SubmitBounds.calls : Submit(t, SubmitBounds)
    \/ \E t \in 1..SubmitBounds.calls : WorkerLease(t, SubmitBounds)

SpecSubmit == Init /\ [][NextSubmit]_vars

\* Admin retry next to the life of the original job: two request handlers at
\* a time, one worker; the original and its clones share the job ids.
CloneBounds ==
    [calls |-> MaxCalls, jobs |-> MaxJobsSubmit, workers |-> MaxWorkersOne,
     capacity |-> MaxCapacity, active |-> MaxActive, events |-> MaxEventsNone,
     queue |-> MaxQueue, early |-> FALSE, overdue |-> TRUE,
     ips |-> Ips, truthful |-> FALSE, stray |-> TRUE]

NextClone ==
    \/ Register(CloneBounds)
    \/ \E t \in 1..CloneBounds.calls : Respond(t)
    \/ \E t \in 1..MaxCallsSeq : Submit(t, CloneBounds)
    \/ \E t \in 1..CloneBounds.calls : WorkerLease(t, CloneBounds)
    \/ \E t \in 1..CloneBounds.calls : JobCancel(t, CloneBounds)
    \/ \E t \in 1..CloneBounds.calls : JobRetry(t, CloneBounds)

SpecClone == Init /\ [][NextClone]_vars

\* The end of a lease under racing calls: two jobs, one worker of capacity 1
\* or 2 that reports its load truthfully; a second result may arrive while
\* the first is being handled.
ReleaseBounds ==
    [calls |-> MaxCalls, jobs |-> MaxJobsSubmit, workers |-> MaxWorkersOne,
     capacity |-> MaxCapacitySeq, active |-> MaxActiveSeq, events |-> MaxEventsNone,
     queue |-> MaxQueue, early |-> FALSE, overdue |-> TRUE,
     ips |-> Ips \ PRIORITY_IPS, truthful |-> TRUE, stray |-> TRUE]

NextRelease ==
    \/ Register(ReleaseBounds)
    \/ \E t \in 1..ReleaseBounds.calls : Respond(t)
    \/ \E t \in 1..MaxCallsSeq : Submit(t, ReleaseBounds)
    \/ \E t \in 1..MaxCallsSeq : WorkerLease(t, ReleaseBounds)
    \/ \E t \in 1..ReleaseBounds.calls : WorkerResult(t, ReleaseBounds)

SpecRelease == Init /\ [][NextRelease]_vars

\* A worker that answers late next to the sweeper: one request handler at a
\* time, one job, one worker that reports an error for the job it holds, also
\* after the deadline of its lease has passed.
ReapBounds ==
    [calls |-> MaxCallsSeq, jobs |-> MaxJobsOne, workers |-> MaxWorkersOne,
     capacity |-> MaxCapacity, active |-> MaxActiveIdle, events |-> MaxEventsNone,
     queue |-> MaxQueue, now |-> MaxNowDeath,
     ips |-> Ips, truthful |-> FALSE, stray |-> FALSE]

NextReap ==
    \/ Register(ReapBounds)
    \/ \E t \in 1..ReapBounds.calls : Respond(t)
    \/ \E t \in 1..ReapBounds.calls : Submit(t, ReapBounds)
    \/ \E t \in 1..ReapBounds.calls : WorkerLease(t, ReapBounds)
    \/ \E t \in 1..ReapBounds.calls : WorkerError(t, ReapBounds)
    \/ Sweeper(ReapBounds)
    \/ Tick(ReapBounds.now, TRUE)

SpecReap == Init /\ [][NextReap]_vars

\* ------------------------------------------------------- state descriptions
\* no handler is mid-flight: every thread is idle or has returned, and the
\* sweeper sleeps between two scans
Settled ==
    /\ \A t \in Threads : calls[t].pc \in {"idle", "ret"}
    /\ sweeper.pc = "sleep"

\* the lease on j names a worker (a sentinel names none)
Held(j) == LeaseGet(leases, j).worker_id # None

\* a held lease whose deadline has not passed
Outstanding(l) == l.worker_id # None /\ ~(now > l.deadline_ts)

\* thread t takes the step that writes the lease record
Grants(t) == At(t, "lease", "grant") /\ calls'[t].pc = "set_processing"

\* ------------------------------------------------------------------ claims
\* C1: lease never grants a job id to a worker while a lease on the same job
\* id, granted earlier to a different worker, is still outstanding.
C1_OneLeasePerJob ==
    [][\A t \in Threads :
        Grants(t) =>
            LET l == LeaseGet(leases, calls[t].jid)
            IN ~(Outstanding(l) /\ l.worker_id # calls[t].wid)]_vars

\* C2: terminal states are absorbing: once a job's status is completed,
\* failed, canceled or timeout, no step changes it.
C2_TerminalAbsorbing ==
    [][\A j \in JobIds :
        (jobs[j].exists /\ jobs[j].status \in Terminal) =>
            jobs'[j].status = jobs[j].status]_vars

\* C3: in every settled state every registered worker has
\* 0 <= active <= capacity.
C3_ActiveWithinCapacity ==
    Settled =>
        \A w \in Registered :
            0 <= workers[w].active /\ workers[w].active <= workers[w].capacity

\* C4: in every settled state a job has a lease held by a worker if and only
\* if its status is processing, and then the lease's worker is the job's
\* worker_id; in particular a queued job has no held lease.
C4_LeaseIffProcessing ==
    Settled =>
        \A j \in JobIds :
            jobs[j].exists =>
                /\ Held(j) <=> jobs[j].status = "processing"
                /\ Held(j) => LeaseGet(leases, j).worker_id = jobs[j].worker_id

\* a request handler is at work on job j
RequestOn(j) == \E t \in Threads : InFlight(t) /\ calls[t].jid = j

\* the sweeper is at work on job j's popped lease
SweepingOn(j) == sweeper.jid = j /\ sweeper.pc \notin {"sleep", "loop"}

\* the sweeper has just finished with job j's lease, which carried r retries
Reaped(j, r) == sweeper.pc = "loop" /\ sweeper.jid = j /\ sweeper.retries = r

InSomeQueue(j) == InQueue(job_queue_p0, j) \/ InQueue(job_queue_p1, j)

\* the lease call has answered, the worker holds the lease, the deadline has
\* passed; r is the retries count the lease carries
Dead(j, r) ==
    /\ Held(j)
    /\ ~RequestOn(j)
    /\ now > LeaseGet(leases, j).deadline_ts
    /\ LeaseGet(leases, j).retries = r

Requeued(j) == ~Held(j) /\ jobs[j].status = "queued" /\ InSomeQueue(j)

Failed(j) == ~Held(j) /\ jobs[j].status = "failed"

\* C5: a leased job whose worker never answers: once the deadline has passed
\* the sweeper, scheduled fairly, removes the lease, and the job is back in a
\* queue with status queued when retries remain, failed when none remain.
C5_ExpiredLeaseReaped ==
    \A j \in JobIds, r \in 0..MAX_RETRIES :
        Dead(j, r) ~> (IF RetriesLeft(r) THEN Requeued(j) ELSE Failed(j))

\* an expired lease was reaped and its job queued again
C5_Witness ==
    /\ Requeued(1)
    /\ LeaseGet(leases, 1) = Sentinel(1, 1)
    /\ jobs[1].worker_id = 1
    /\ ~RequestOn(1)
    /\ sweeper.pc = "sleep"

\* the values of "retries" in job j's event log, oldest first
RetriesLog(j) ==
    LET es == SelectSeq(events[j], LAMBDA e : e.retries # -1)
    IN [i \in 1..Len(es) |-> es[i].retries]

\* C6: the retries counter of a job id never decreases: the values the
\* requeue events of a job report are in non-decreasing order.
C6_RetriesNonDecreasing ==
    \A j \in JobIds :
        \A a, b \in 1..Len(RetriesLog(j)) :
            a < b => RetriesLog(j)[a] <= RetriesLog(j)[b]

\* C7 as the specification states it: once the third expiry of a job's lease
\* is reaped (the lease carried retries = 2) the job is failed with error
\* "lease expired", its retries counter is 3 and it is in no queue.
C7_FailedAfterThirdExpiry ==
    \A j \in JobIds :
        Reaped(j, MAX_RETRIES - 1) =>
            /\ jobs[j].status = "failed"
            /\ jobs[j].error = "lease expired"
            /\ LeaseGet(leases, j).retries = MAX_RETRIES
            /\ ~InSomeQueue(j)

\* C7, amended: the third expiry leaves the job with retries = 3 and not
\* failed for it: the job is queued in P1 until a lease takes it.  It is the
\* fourth expiry (of the lease that carried retries = 3) that fails the job
\* with error "lease expired"; the job is then in no queue and no lease
\* record, so no retries counter, is left.
C7_FailedAfterFourthExpiry ==
    \A j \in JobIds :
        /\ Reaped(j, MAX_RETRIES - 1) =>
            /\ LeaseGet(leases, j).retries = MAX_RETRIES
            /\ ~(jobs[j].status = "failed" /\ jobs[j].error = "lease expired")
            /\ (jobs[j].status = "queued" /\ ~RequestOn(j)) =>
                    InQueue(job_queue_p1, j)
        /\ Reaped(j, MAX_RETRIES) =>
            /\ jobs[j].status = "failed"
            /\ jobs[j].error = "lease expired"
            /\ ~Truthy(LeaseGet(leases, j))
            /\ ~InSomeQueue(j)
        /\ (sweeper.jid = j /\ sweeper.pc \in {"set_failed", "push_failed"}) =>
            sweeper.retries = MAX_RETRIES
        /\ (jobs[j].status = "failed" /\ jobs[j].error = "lease expired") =>
            ~Truthy(LeaseGet(leases, j)) \/ SweepingOn(j)

\* the fourth expiry has been reaped
C7_Witness ==
    /\ Reaped(1, MAX_RETRIES)
    /\ jobs[1].status = "failed"
    /\ jobs[1].error = "lease expired"

HasEvent(j, type, message, retries) ==
    \E i \in 1..Len(events[j]) :
        /\ events[j][i].type = type
        /\ events[j][i].message = message
        /\ events[j][i].retries = retries

\* the first expiry of job j's lease has been reaped and nothing has touched
\* the job since
FirstExpiryReaped(j) ==
    /\ LeaseGet(leases, j) = Sentinel(j, 1)
    /\ ~RequestOn(j)
    /\ ~SweepingOn(j)

\* thread t takes the last step of a result call by the worker that holds
\* job j's second lease, before the deadline
SecondLeaseResult(t, j) ==
    /\ At(t, "result", "dec")
    /\ calls[t].jid = j
    /\ calls'[t].pc = "ret"
    /\ LeaseGet(leases, j).worker_id = calls[t].wid
    /\ LeaseGet(leases, j).retries = 1
    /\ ~(now > LeaseGet(leases, j).deadline_ts)

\* C8: after a job's first lease has expired and the sweeper has reaped it,
\* the job is queued, its retries = 1, it is in a queue and the event
\* "lease expired; requeued" is in its log; the result of the worker that
\* leases it next ends with the job completed and the lease gone.  (The job
\* leaves the queue without a lease only when the next lease call cannot sign
\* its input and fails it.)
C8_DeathRecovery ==
    /\ [](\A j \in JobIds :
            FirstExpiryReaped(j) =>
                /\ HasEvent(j, "info", "lease expired; requeued", 1)
                /\ \/ jobs[j].status = "queued" /\ InQueue(job_queue_p1, j)
                   \/ /\ jobs[j].status = "failed"
                      /\ jobs[j].error = "sign_url failed"
                      /\ ~InSomeQueue(j))
    /\ [][\A t \in Threads, j \in JobIds :
            SecondLeaseResult(t, j) =>
                /\ calls'[t].ret = "ok"
                /\ jobs'[j].status = "completed"
                /\ ~Truthy(LeaseGet(leases', j))]_vars

\* worker 1 took the job and let the lease expire, the sweeper requeued it,
\* worker 2 leased it next and its result completed it
C8_Witness ==
    /\ jobs[1].status = "completed"
    /\ jobs[1].worker_id = 2
    /\ ~Truthy(LeaseGet(leases, 1))
    /\ workers[1].active = 0
    /\ [i \in 1..Len(events[1]) |-> events[1][i].message] =
            <<"job queued", "processing", "lease expired; requeued", "processing",
              "completed">>
    /\ \E t \in Threads : calls[t].op = "result" /\ calls[t].ret = "ok"

\* thread t takes the step of submit that pushes its job onto a queue
Enqueues(t) == At(t, "submit", "enqueue") /\ calls'[t].pc = "push"

\* thread t takes the step of lease that pops a job off the queues
Dequeues(t) == At(t, "lease", "dequeue") /\ calls'[t].pc = "load"

\* C9: a job submitted from an IP in PRIORITY_IPS is pushed to the tail of
\* P0, any other to the tail of P1; a lease takes the head of P0 if P0 is not
\* empty, otherwise the head of P1: never a P1 job while P0 is not empty, and
\* within a level the job submitted first.
C9_PriorityOrder ==
    [][\A t \in Threads :
        /\ Enqueues(t) =>
            IF jobs[calls[t].jid].requested_by_ip \in PRIORITY_IPS
            THEN /\ job_queue_p0' = Append(job_queue_p0, calls[t].jid)
                 /\ job_queue_p1' = job_queue_p1
            ELSE /\ job_queue_p1' = Append(job_queue_p1, calls[t].jid)
                 /\ job_queue_p0' = job_queue_p0
        /\ Dequeues(t) =>
            LET j == calls'[t].jid
            IN IF job_queue_p0 # <<>>
               THEN /\ j = Head(job_queue_p0)
                    /\ job_queue_p0' = Tail(job_queue_p0)
                    /\ job_queue_p1' = job_queue_p1
                    /\ jobs[j].requested_by_ip \in PRIORITY_IPS
                    /\ \A i \in 1..Len(job_queue_p0') : j < job_queue_p0'[i]
               ELSE /\ j = Head(job_queue_p1)
                    /\ job_queue_p1' = Tail(job_queue_p1)
                    /\ job_queue_p0' = job_queue_p0
                    /\ jobs[j].requested_by_ip \notin PRIORITY_IPS
                    /\ \A i \in 1..Len(job_queue_p1') : j < job_queue_p1'[i]]_vars

\* a lease has taken the priority job 2 while job 1, submitted before it,
\* waits in P1
C9_Witness ==
    \E t \in Threads :
        /\ At(t, "lease", "load")
        /\ calls[t].jid = 2
        /\ jobs[2].requested_by_ip \in PRIORITY_IPS
        /\ job_queue_p1 # <<>>
        /\ Head(job_queue_p1) = 1

\* C10: a result call for a job whose lease is gone, or whose lease names a
\* different worker, is rejected with 400 "invalid lease or worker_id" and
\* leaves the job records, the lease table, the queues and the workers alone.
C10_DuplicateResultRejected ==
    [][\A t \in Threads, w \in WorkerIds, j \in JobIds :
        (worker_result_begin(t, w, j) /\ LeaseGet(leases, j).worker_id # w) =>
            /\ calls'[t].pc = "ret"
            /\ calls'[t].ret = "400 invalid lease or worker_id"
            /\ UNCHANGED <<jobs, leases, job_queue_p0, job_queue_p1, workers>>]_vars

\* a second result for a job that is already completed has been rejected
C10_Witness ==
    \E t \in Threads :
        /\ calls[t].op = "result"
        /\ calls[t].ret = "400 invalid lease or worker_id"
        /\ jobs[1].status = "completed"
        /\ ~Held(1)

\* thread t takes the last step of a cancel call
CancelReturns(t) == At(t, "cancel", "push") /\ calls'[t].pc = "ret"

\* C11: when cancel(job) returns, the job id is in neither P0 nor P1, no
\* worker holds a lease on it and its status is canceled; a cancel of a job
\* that is already canceled changes nothing in the job status, the queues,
\* the lease table or any worker's active count.
C11_CancelIdempotent ==
    [][\A t \in Threads :
        LET j == calls[t].jid
        IN /\ CancelReturns(t) =>
                /\ ~InQueue(job_queue_p0', j)
                /\ ~InQueue(job_queue_p1', j)
                /\ LeaseGet(leases', j).worker_id = None
                /\ jobs'[j].status = "canceled"
           /\ (calls[t].op = "cancel" /\ InFlight(t) /\ calls'[t] # calls[t]
                    /\ jobs[j].status = "canceled") =>
                /\ jobs'[j].status = "canceled"
                /\ UNCHANGED <<job_queue_p0, job_queue_p1, leases, workers>>]_vars

\* thread t takes the last step of a delete call
DeleteReturns(t) == At(t, "delete", "doc") /\ calls'[t].pc = "ret"

\* C12: when delete(job) returns, the job id is in neither queue and the job
\* record is gone; delete of a missing id returns 404 and changes no state;
\* delete of a canceled job goes through and returns ok.
C12_DeleteRemoves ==
    [][\A t \in Threads :
        LET j == calls[t].jid
        IN /\ DeleteReturns(t) =>
                /\ ~InQueue(job_queue_p0', j)
                /\ ~InQueue(job_queue_p1', j)
                /\ ~jobs'[j].exists
                /\ calls'[t].ret = "ok"
           /\ \A k \in JobIds :
                job_delete_begin(t, k) =>
                    IF jobs[k].exists
                    THEN calls'[t].pc = "remove"
                    ELSE /\ calls'[t].ret = "404 Not found"
                         /\ UNCHANGED <<jobs, events, leases, workers,
                                        job_queue_p0, job_queue_p1>>]_vars

\* C13: a lease call for an unknown worker_id does not end in a hard error:
\* it answers with an empty lease and a non-zero wait_sec, and leaves the
\* queues, the leases and the worker records unchanged.
C13_LeaseNeverHardError ==
    [][\A t \in Threads, w \in WorkerIds :
        (~workers[w].registered
            /\ \E wants \in 0..1, active \in 0..MaxActiveSeq :
                    worker_lease_begin(t, w, wants, active)) =>
            /\ calls'[t].ret \in {"lease none wait 1", "lease none wait 2"}
            /\ UNCHANGED <<job_queue_p0, job_queue_p1, leases, workers>>]_vars

\* the jobs whose status is processing
Processing == {j \in JobIds : jobs[j].exists /\ jobs[j].status = "processing"}

\* C15: in every settled state, the workers having reported their load
\* truthfully, the sum of active over all workers is the number of jobs whose
\* status is processing.
C15_ActiveSumIsProcessing ==
    Settled => SumActive(workers, MaxWorkers) = Cardinality(Processing)

\* an event that reports a terminal state of its job
TerminalEvent(e) == e.type \in {"error", "done"} \/ e.message = "canceled"

\* how many times job j was handed out by lease before it first reached a
\* terminal state: the "processing" events of its log that come before the
\* first terminal event
HandOuts(j) ==
    LET es == events[j]
        ends == {i \in 1..Len(es) : TerminalEvent(es[i])}
    IN Cardinality({i \in 1..Len(es) :
            /\ es[i].message = "processing"
            /\ \A k \in ends : i < k})

\* C14: a job is handed out by lease at most 1 + MAX_RETRIES times before it
\* reaches failed or completed.
C14_BoundedRetries ==
    \A j \in JobIds : HandOuts(j) <= 1 + MAX_RETRIES

\* C16: the stored event log of a job never holds more than EVENTS_MAX
\* entries, whatever the number of appends.
C16_EventLogBounded ==
    \A j \in JobIds : Len(events[j]) <= EVENTS_MAX

\* the registered workers that are online at time t0
OnlineWorkers(t0) == {w \in WorkerIds : workers[w].registered /\ Online(workers[w], t0)}

RECURSIVE SumOver(_, _)
SumOver(f, S) ==
    IF S = {} THEN 0
    ELSE LET x == CHOOSE y \in S : TRUE IN f[x] + SumOver(f, S \ {x})

\* C19: the summary of gpu_status counts online workers only: total_capacity
\* and active_jobs are the sums of capacity and of active over the workers
\* with now - last_seen_ts < HEARTBEAT_STALE_SEC, and a stale worker stays in
\* the registry.
C19_SummaryCountsOnlineOnly ==
    [][\A t \in Threads :
        gpu_status_begin(t) =>
            /\ calls'[t].body.total_capacity =
                    SumOver([w \in WorkerIds |-> workers[w].capacity], OnlineWorkers(now))
            /\ calls'[t].body.active_jobs =
                    SumOver([w \in WorkerIds |-> workers[w].active], OnlineWorkers(now))
            /\ workers' = workers]_vars

\* the frames of stream t that carry a recorded event
Delivered(t) == SelectSeq(calls[t].frames, LAMBDA e : e # OutputUrlFrame)

\* thread t takes the step of a stream that reads the events
Polls(t) == At(t, "stream", "query") /\ calls'[t].pc = "yield"

Closes(t) == calls[t].op = "stream" /\ InFlight(t) /\ calls'[t].pc = "ret"

\* a terminal frame: a terminal event of the log, or the frame with the
\* output URL of a completed job
TerminalFrame(e) == TerminalEvent(e) \/ e = OutputUrlFrame

\* C18: once a job is in a terminal state, a stream open on it closes only
\* after the terminal event of the job has been delivered on that stream.
C18_StreamClosesAfterTerminal ==
    [][\A t \in Threads :
        (Closes(t) /\ jobs[calls[t].jid].exists
            /\ jobs[calls[t].jid].status \in Terminal) =>
            \E i \in 1..Len(calls'[t].frames) : TerminalFrame(calls'[t].frames[i])]_vars

\* how many times job j stands in queue q
Count(q, j) == Cardinality({i \in 1..Len(q) : q[i] = j})

\* thread t takes the first step of a submit call and the call fails there
SubmitFails(t) == Free(t) /\ calls'[t].op = "submit" /\ calls'[t].pc = "ret"

\* thread t takes the first step of a submit call and the record is written
SubmitCreates(t) == Free(t) /\ calls'[t].op = "submit" /\ calls'[t].pc = "enqueue"

\* thread t takes the last step of a submit call, which answers "queued"
SubmitReturns(t) == At(t, "submit", "push") /\ calls'[t].pc = "ret"

\* C20 as the specification states it: a submit whose upload fails creates no
\* job record and enqueues no id; when submit returns successfully the job
\* record exists with status queued and its id is in exactly one queue.
C20_SubmitAllOrNothing ==
    [][\A t \in Threads :
        /\ SubmitFails(t) => UNCHANGED <<jobs, job_queue_p0, job_queue_p1>>
        /\ SubmitReturns(t) =>
            LET j == calls[t].jid
            IN /\ calls'[t].ret = "queued"
               /\ jobs'[j].exists
               /\ jobs'[j].status = "queued"
               /\ Count(job_queue_p0', j) + Count(job_queue_p1', j) = 1]_vars

\* C20, amended: a submit whose upload (or read) fails creates no job record
\* and enqueues no id; a submit that returns successfully has written the job
\* record with status queued and has then pushed its id, which was in no
\* queue, onto exactly one queue.  When it returns, a lease may already have
\* taken the id off the queue and changed the status.
C20_SubmitRecordsThenEnqueues ==
    [][\A t \in Threads :
        /\ SubmitFails(t) =>
            /\ calls'[t].ret \in {"400 read upload failed", "500 GCS upload failed"}
            /\ UNCHANGED <<jobs, job_queue_p0, job_queue_p1, issued>>
        /\ SubmitCreates(t) =>
            LET j == calls'[t].jid
            IN /\ ~jobs[j].exists
               /\ jobs'[j].exists
               /\ jobs'[j].status = "queued"
               /\ ~InSomeQueue(j)
               /\ UNCHANGED <<job_queue_p0, job_queue_p1>>
        /\ (calls'[t].op = "submit" /\ calls'[t].pc = "push" /\ calls[t].pc # "push") =>
            LET j == calls[t].jid
            IN /\ At(t, "submit", "enqueue")
               /\ jobs[j].exists
               /\ ~InSomeQueue(j)
               /\ Count(job_queue_p0', j) + Count(job_queue_p1', j) = 1
               /\ \/ job_queue_p0' = Append(job_queue_p0, j) /\ job_queue_p1' = job_queue_p1
                  \/ job_queue_p1' = Append(job_queue_p1, j) /\ job_queue_p0' = job_queue_p0
        /\ (calls'[t].op = "submit" /\ calls'[t].ret = "queued" /\ calls[t].pc # "ret") =>
            SubmitReturns(t)]_vars

\* a submit has yet to answer while a lease has already taken its job off
\* the queue and set it to processing
C20_Witness ==
    \E t \in Threads :
        /\ At(t, "submit", "push")
        /\ jobs[calls[t].jid].status = "processing"
        /\ ~InSomeQueue(calls[t].jid)

\* thread t takes a step of a retry call
RetrySteps(t) == calls'[t].op = "retry" /\ calls'[t] # calls[t]

\* thread t takes the step of a retry call that writes the new record
RetryCreates(t) == At(t, "retry", "create") /\ calls'[t].pc = "enqueue"

\* thread t takes the step of a retry call that pushes the new id
RetryEnqueues(t) == At(t, "retry", "enqueue") /\ calls'[t].pc = "push"

\* C21: admin retry of a job creates a job with a new id, status queued and
\* the same input_path, and enqueues it; no step of it changes the original
\* job's record, its lease, its place in the queues or a worker's active
\* count.
C21_RetryClones ==
    [][\A t \in Threads :
        /\ (RetrySteps(t) /\ calls'[t].pc = "ret" /\ calls'[t].ret # "ok") =>
            UNCHANGED <<jobs, leases, job_queue_p0, job_queue_p1, workers>>
        /\ (RetrySteps(t) /\ calls'[t].jid # None) =>
            LET j == calls'[t].jid
            IN /\ jobs'[j] = jobs[j]
               /\ LeaseGet(leases', j) = LeaseGet(leases, j)
               /\ Count(job_queue_p0', j) = Count(job_queue_p0, j)
               /\ Count(job_queue_p1', j) = Count(job_queue_p1, j)
               /\ \A w \in WorkerIds : workers'[w].active = workers[w].active
        /\ RetryCreates(t) =>
            LET j == calls[t].jid
                n == calls'[t].new_id
            IN /\ n # j
               /\ ~jobs[n].exists
               /\ jobs'[n].exists
               /\ jobs'[n].status = "queued"
               /\ jobs'[n].input_path = jobs[j].input_path
               /\ jobs'[n].input_path # None
        /\ RetryEnqueues(t) =>
            LET n == calls[t].new_id
            IN /\ ~InSomeQueue(n)
               /\ Count(job_queue_p0', n) + Count(job_queue_p1', n) = 1
        /\ (calls'[t].op = "retry" /\ calls'[t].ret = "ok" /\ calls[t].pc # "ret") =>
            At(t, "retry", "push")]_vars

\* a retry of job 1 has answered with the new id 2: job 2 is queued with the
\* input of job 1, which is still processing under its lease
C21_Witness ==
    \E t \in Threads :
        /\ calls[t].op = "retry"
        /\ calls[t].ret = "ok"
        /\ calls[t].jid = 1
        /\ calls[t].new_id = 2
        /\ jobs[1].status = "processing"
        /\ Held(1)
        /\ workers[LeaseGet(leases, 1).worker_id].active = 1
        /\ jobs[2].status = "queued"
        /\ jobs[2].input_path = jobs[1].input_path
        /\ InSomeQueue(2)

\* thread t takes the first step of a lease call of a registered worker w
\* that asks for `wants` jobs and reports `active` jobs in hand
LeaseBegins(t, w, wants, active) ==
    workers[w].registered /\ worker_lease_begin(t, w, wants, active)

\* C22: a lease call goes on to the queues only if wants >= 1 and the active
\* count the worker reports is strictly below its capacity; otherwise it
\* answers lease none with wait_sec 2 and pops nothing.  A call that goes on
\* pops at most one id and writes at most one lease: after its one pop it
\* never returns to the queues.
C22_GrantAtMostOne ==
    [][\A t \in Threads :
        /\ \A w \in WorkerIds, wants \in 0..MaxWants, active \in 0..MaxActiveSeq :
            LeaseBegins(t, w, wants, active) =>
                IF wants >= 1 /\ active < workers[w].capacity
                THEN calls'[t].pc = "dequeue"
                ELSE /\ calls'[t].pc = "ret"
                     /\ calls'[t].ret = "lease none wait 2"
                     /\ UNCHANGED <<job_queue_p0, job_queue_p1, leases, jobs>>
        /\ (calls'[t].op = "lease" /\ calls'[t].pc = "dequeue" /\ calls'[t] # calls[t]) =>
            Free(t)
        /\ (calls[t].op = "lease" /\ calls'[t] # calls[t]) =>
            /\ Len(job_queue_p0') + Len(job_queue_p1') >=
                    Len(job_queue_p0) + Len(job_queue_p1) - 1
            /\ (job_queue_p0' # job_queue_p0 \/ job_queue_p1' # job_queue_p1) =>
                    At(t, "lease", "dequeue")
            /\ leases' # leases =>
                    /\ At(t, "lease", "grant")
                    /\ LeasePop(leases', calls[t].jid) = LeasePop(leases, calls[t].jid)]_vars

\* a worker of capacity 2 that reported no job in hand has been granted one
\* job by a lease call while a second job waits in a queue
C22_Witness ==
    \E t \in Threads :
        /\ calls[t].op = "lease"
        /\ calls[t].ret = "lease granted"
        /\ workers[1].capacity = 2
        /\ workers[1].active = 1
        /\ Len(leases) = 1
        /\ Len(job_queue_p0) + Len(job_queue_p1) = 1

\* the jobs whose lease names worker w before the step and no longer after it
Released(w) ==
    {j \in JobIds : LeaseGet(leases, j).worker_id = w /\ LeaseGet(leases', j).worker_id # w}

\* by how much the step lowers the active count of worker w
Decrement(w) == Max(0, workers[w].active - workers'[w].active)

\* the step is the first of a lease call of worker w, which reports its load
Reports(w) == \E t \in Threads : Free(t) /\ calls'[t].op = "lease" /\ calls'[t].wid = w

\* C23: each lease that ends decrements its worker's active count exactly
\* once, also under concurrent calls for the same job: a step lowers the
\* active count of a worker by one exactly when it removes a lease that names
\* the worker (the two happen as one atomic step).
C23_ReleaseDecrementsOnce ==
    [][\A w \in WorkerIds :
        ~Reports(w) => Decrement(w) = Cardinality(Released(w))]_vars

\* thread t takes a step of an error call that stands at pc
ErrorStep(t, pc) == At(t, "error", pc) /\ calls'[t] # calls[t]

\* C24: worker_error on a job whose lease carries retries r (0 without a
\* lease): the caller's active goes down by one and the lease is removed;
\* if r < 3 the status becomes queued, the retries recorded become r + 1 and
\* the id is pushed onto a queue; if r >= 3 the status becomes failed with
\* the reported error and nothing is pushed.
C24_ErrorRequeuesOrFails ==
    [][\A t \in Threads :
        LET w == calls[t].wid
            j == calls[t].jid
            r == calls[t].retries
        IN /\ \A w0 \in WorkerIds, j0 \in JobIds :
                (workers[w0].registered /\ worker_error_begin(t, w0, j0)) =>
                    /\ calls'[t].pc = "pop"
                    /\ calls'[t].retries =
                            IF LeaseIdx(leases, j0) = {} THEN 0
                            ELSE LeaseGet(leases, j0).retries
           /\ ErrorStep(t, "pop") =>
                /\ workers[w].active >= 1 => workers'[w].active = workers[w].active - 1
                /\ workers[w].active = 0 => workers'[w].active = 0
                /\ LeaseIdx(leases', j) = {}
                /\ calls'[t].pc = IF r < 3 THEN "set_queued" ELSE "set_failed"
           /\ ErrorStep(t, "set_queued") =>
                jobs'[j].status = "queued" /\ jobs'[j].error = ""
           /\ ErrorStep(t, "sentinel") =>
                /\ LeaseGet(leases', j).retries = r + 1
                /\ LeaseGet(leases', j).worker_id = None
           /\ ErrorStep(t, "enqueue") =>
                Count(job_queue_p0', j) + Count(job_queue_p1', j) =
                    Count(job_queue_p0, j) + Count(job_queue_p1, j) + 1
           /\ ErrorStep(t, "push_requeued") =>
                r < 3 /\ calls'[t].ret = "ok"
           /\ ErrorStep(t, "set_failed") =>
                /\ r >= 3
                /\ jobs'[j].status = "failed"
                /\ jobs'[j].error = "worker error"
                /\ UNCHANGED <<job_queue_p0, job_queue_p1, leases>>
           /\ ErrorStep(t, "push_failed") =>
                /\ calls'[t].ret = "ok"
                /\ UNCHANGED <<job_queue_p0, job_queue_p1, leases>>]_vars

\* the worker has reported an error for the job it holds under a lease that
\* carried retries = 3: its lease is gone, its active count is back at 0, and
\* the job is about to be failed
C24_Witness ==
    \E t \in Threads :
        /\ At(t, "error", "set_failed")
        /\ calls[t].retries = 3
        /\ jobs[1].status = "processing"
        /\ jobs[1].worker_id = calls[t].wid
        /\ LeaseIdx(leases, 1) = {}
        /\ workers[calls[t].wid].active = 0
        /\ ~InSomeQueue(1)

\* thread t takes a step of a lease call whose sign_url has failed
SignFailedStep(t) ==
    calls[t].op = "lease" /\ calls[t].err = "sign_url failed" /\ calls'[t] # calls[t]

\* C25: when signing the input URL fails during a lease call, the popped job
\* ends with status failed and the call returns lease none; the call creates
\* no lease and does not increment the worker's active count.
C25_SignFailureNoLease ==
    [][\A t \in Threads :
        LET j == calls[t].jid
        IN /\ (At(t, "lease", "load") /\ calls'[t].err = "sign_url failed") =>
                /\ calls'[t].pc = "fail_set"
                /\ UNCHANGED <<leases, workers, jobs, job_queue_p0, job_queue_p1>>
           /\ SignFailedStep(t) =>
                /\ UNCHANGED <<leases, workers, job_queue_p0, job_queue_p1>>
                /\ calls'[t].pc \in {"fail_push", "ret"}
                /\ jobs'[j].status = "failed"
                /\ jobs'[j].error = "sign_url failed"
                /\ LeaseGet(leases', j).worker_id = None
                /\ calls'[t].pc = "ret" => calls'[t].ret = "lease none wait 1"]_vars

\* a lease call has answered lease none after sign_url failed: the job it
\* popped is failed, in no queue and under no lease, and the worker's active
\* count is the 0 it reported
C25_Witness ==
    \E t \in Threads :
        /\ calls[t].op = "lease"
        /\ calls[t].ret = "lease none wait 1"
        /\ jobs[1].status = "failed"
        /\ jobs[1].error = "sign_url failed"
        /\ ~InSomeQueue(1)
        /\ leases = <<>>
        /\ workers[1].active = 0

\* thread t takes the step of a lease call that loads the record of the id
\* it has popped
Loads(t) == At(t, "lease", "load") /\ calls'[t] # calls[t]

\* C26: when a lease call pops a job id whose record is missing or lacks
\* input_path, the job is marked failed with an explanatory error and the
\* call returns lease none: the popped id is never dropped without a
\* terminal status.
C26_PoppedIdNeverDropped ==
    [][\A t \in Threads :
        LET j == calls[t].jid
        IN /\ (Loads(t) /\ (~jobs[j].exists \/ jobs[j].input_path = None)) =>
                /\ calls'[t].pc = "fail_set"
                /\ calls'[t].err # ""
           /\ (At(t, "lease", "fail_set") /\ calls'[t] # calls[t]) =>
                /\ jobs'[j].status = "failed"
                /\ jobs'[j].error = calls[t].err
           /\ (At(t, "lease", "fail_push") /\ calls'[t] # calls[t]) =>
                calls'[t].ret = "lease none wait 1"]_vars

\* thread t takes a step of a result call that stands at pc
ResultStep(t, pc) == At(t, "result", pc) /\ calls'[t] # calls[t]

\* C27: when the output upload fails during a validated result call, the
\* worker's active count goes down by one, the job's lease is deleted, the
\* job's status becomes failed, an error event is emitted, and the job is
\* not put back on a queue.
C27_UploadFailureFails ==
    [][\A t \in Threads :
        LET w == calls[t].wid
            j == calls[t].jid
        IN /\ (calls'[t].op = "result" /\ calls'[t].pc = "fail_dec"
                    /\ calls'[t] # calls[t]) =>
                /\ At(t, "result", "read")
                /\ UNCHANGED <<jobs, leases, workers, events, job_queue_p0, job_queue_p1>>
           /\ ResultStep(t, "fail_dec") =>
                /\ workers[w].active >= 1 => workers'[w].active = workers[w].active - 1
                /\ workers[w].active = 0 => workers'[w].active = 0
                /\ LeaseIdx(leases', j) = {}
                /\ UNCHANGED <<job_queue_p0, job_queue_p1>>
           /\ ResultStep(t, "fail_set") =>
                /\ jobs'[j].status = "failed"
                /\ jobs'[j].error = "output upload error"
                /\ UNCHANGED <<job_queue_p0, job_queue_p1, leases, workers>>
           /\ ResultStep(t, "fail_push") =>
                /\ events'[j] = Append(events[j], Event("error", "upload output error", -1, -1))
                /\ calls'[t].ret = "upload_failed"
                /\ UNCHANGED <<job_queue_p0, job_queue_p1, leases, workers, jobs>>]_vars

\* a result call of the worker that held the job has answered upload_failed:
\* the job is failed, its lease is gone, the worker's active count is 0, the
\* error event closes the log and the id is in no queue
C27_Witness ==
    \E t \in Threads :
        /\ calls[t].op = "result"
        /\ calls[t].ret = "upload_failed"
        /\ jobs[1].status = "failed"
        /\ jobs[1].error = "output upload error"
        /\ leases = <<>>
        /\ workers[1].active = 0
        /\ [i \in 1..Len(events[1]) |-> events[1][i].message] =
                <<"job queued", "processing", "upload output error">>
        /\ ~InSomeQueue(1)

\* the sum of the workers' active counts
ActiveNow == SumOver([w \in WorkerIds |-> workers[w].active], WorkerIds)

\* the submit of thread t appends its info event with queue_position p
ReportsPosition(t, p) ==
    events'[calls[t].jid] =
        Append(events[calls[t].jid], Event("info", "job queued", -1, p))

\* C28 as the specification states it: the queue position reported in the
\* submit info event is |P0| + |P1| + (sum of the workers' active) + 1,
\* measured just before the job is pushed, for priority and for normal
\* submissions alike.
C28_PositionCountsBothQueues ==
    [][\A t \in Threads :
        /\ Enqueues(t) =>
                calls'[t].position =
                    Len(job_queue_p0) + Len(job_queue_p1) + ActiveNow + 1
        /\ SubmitReturns(t) => ReportsPosition(t, calls[t].position)]_vars

\* C28, amended: the queue position reported in the submit info event,
\* measured just before the job is pushed, is |P0| + |P1| + (sum of the
\* workers' active) + 1 for a normal submission and |P0| + (sum of the
\* workers' active) + 1 for a priority submission, which does not wait
\* behind P1.
C28_PositionByLevel ==
    [][\A t \in Threads :
        /\ Enqueues(t) =>
                calls'[t].position =
                    IF jobs[calls[t].jid].requested_by_ip \in PRIORITY_IPS
                    THEN Len(job_queue_p0) + ActiveNow + 1
                    ELSE Len(job_queue_p0) + Len(job_queue_p1) + ActiveNow + 1
        /\ SubmitReturns(t) => ReportsPosition(t, calls[t].position)]_vars

\* the priority job 2 was submitted while job 1 waited in P1 and no worker
\* was busy: its info event reports position 1
C28_Witness ==
    /\ job_queue_p1 = <<1>>
    /\ job_queue_p0 = <<2>>
    /\ ActiveNow = 0
    /\ events[1] = <<Event("info", "job queued", -1, 1)>>
    /\ events[2] = <<Event("info", "job queued", -1, 1)>>
    /\ \A t \in Threads : ~InFlight(t)

\* the retries the last requeue of job j recorded in its log (0 before the
\* first requeue)
LastRequeue(j) ==
    IF RetriesLog(j) = <<>> THEN 0 ELSE RetriesLog(j)[Len(RetriesLog(j))]

\* an error call on job j has started and not answered: a requeue may be
\* under way, its event not yet in the log
ErrorInFlight(j) ==
    \E u \in Threads : calls[u].op = "error" /\ InFlight(u) /\ calls[u].jid = j

\* C29: a lease granted for a job carries the job's retry count forward: the
\* retries field of the new lease is never behind the retries recorded by
\* the previous requeue of the job, and equals it (0 for a first dispatch)
\* when no requeue of the job is under way; re-leasing does not reset the
\* count.
C29_LeaseCarriesRetries ==
    [][\A t \in Threads :
        Grants(t) =>
            LET j == calls[t].jid
                r == LeaseGet(leases', j).retries
            IN /\ r >= LastRequeue(j)
               /\ ~ErrorInFlight(j) => r = LastRequeue(j)]_vars

\* C30: each job id occurs at most once across P0 and P1 together, after any
\* sequence of submit, worker_error, reaper, cancel and lease operations: a
\* job is never queued twice at the same time.
C30_QueuedAtMostOnce ==
    \A j \in JobIds : Count(job_queue_p0, j) + Count(job_queue_p1, j) <= 1

\* C31: in every settled state, every job id present in P0 or P1 refers to
\* an existing job whose status is queued: no terminal, processing or
\* deleted job sits in a queue.
C31_QueuedIdsAreQueuedJobs ==
    Settled =>
        \A j \in JobIds :
            InSomeQueue(j) => jobs[j].exists /\ jobs[j].status = "queued"

\* worker w holds the lease on job j
HoldsLease(w, j) == LeaseGet(leases, j).worker_id = w

\* C32: a worker_error call by a registered worker that does not hold the
\* lease of the named job changes nothing: its release step leaves the lease
\* table and every active count alone, it writes no status to a job that is
\* not processing (queued, terminal or unknown), and it pushes no id that is
\* unknown or already queued.
C32_StrayErrorChangesNothing ==
    [][\A t \in Threads :
        LET w == calls[t].wid
            j == calls[t].jid
        IN /\ (ErrorStep(t, "pop") /\ ~HoldsLease(w, j)) =>
                leases' = leases /\ workers' = workers
           /\ (/\ ErrorStep(t, "set_queued") \/ ErrorStep(t, "set_failed")
               /\ ~jobs[j].exists \/ jobs[j].status # "processing") =>
                jobs' = jobs
           /\ (/\ ErrorStep(t, "enqueue")
               /\ ~jobs[j].exists \/ InSomeQueue(j)) =>
                job_queue_p0' = job_queue_p0 /\ job_queue_p1' = job_queue_p1]_vars

\* job j was handed out and its record is gone: it has been deleted
Deleted(j) == Issued(j) /\ ~jobs[j].exists

\* C33: when delete(job) answers, no lease or sentinel record of the job is
\* left and no worker is still charged with it; from then on no step of a
\* worker call or of the sweeper re-creates the job record or puts the id
\* into a queue.
C33_DeletedStaysDeleted ==
    [][/\ \A t \in Threads :
            DeleteReturns(t) =>
                /\ LeaseIdx(leases', calls[t].jid) = {}
                /\ \A w \in WorkerIds : workers'[w].active <= HeldBy(w)'
       /\ \A j \in JobIds :
            Deleted(j) =>
                /\ ~jobs'[j].exists
                /\ Count(job_queue_p0', j) <= Count(job_queue_p0, j)
                /\ Count(job_queue_p1', j) <= Count(job_queue_p1, j)]_vars

\* C34: a processing job leaves processing once its lease runs out, because
\* the sweeper, scheduled fairly, reaps every expired lease (C5); so no job
\* may be processing without a lease the sweeper can expire: in every
\* settled state a processing job has a lease that names a worker and
\* carries a deadline, whatever the interleaving of lease with cancel,
\* worker_error and the sweeper.
C34_ProcessingHasLease ==
    Settled =>
        \A j \in JobIds :
            (jobs[j].exists /\ jobs[j].status = "processing") =>
                Held(j) /\ LeaseGet(leases, j).deadline_ts # 0

\* the sweeper takes the step that pops the lease of the next id on its list
Reaps == sweeper.pc = "loop" /\ sweeper.expired # <<>> /\ sweeper' # sweeper

\* C35: the sweeper acts only on a lease whose deadline has passed: the
\* record it pops names a worker, and the current time is strictly past its
\* deadline_ts; it never pops a sentinel (worker_id None, deadline_ts 0) nor
\* a lease that is still within its deadline.
C35_ReapsOnlyExpired ==
    [][Reaps =>
        LET lease == LeaseGet(leases, Head(sweeper.expired))
        IN Truthy(lease) =>
            /\ lease.worker_id # None
            /\ lease.deadline_ts # 0
            /\ now > lease.deadline_ts]_vars

\* the sweeper takes the step that pushes the id of the job it requeues
SweepEnqueues == sweeper.pc = "enqueue" /\ sweeper' # sweeper

\* C36: a job requeued by worker_error or by the sweeper is appended to the
\* tail of the normal queue P1 whatever the priority it was submitted with,
\* and P0 is left as it was.
C36_RequeueToNormalTail ==
    [][/\ \A t \in Threads :
            ErrorStep(t, "enqueue") =>
                /\ job_queue_p1' = Append(job_queue_p1, calls[t].jid)
                /\ job_queue_p0' = job_queue_p0
       /\ SweepEnqueues =>
            /\ job_queue_p1' = Append(job_queue_p1, sweeper.jid)
            /\ job_queue_p0' = job_queue_p0]_vars

\* a job submitted from a priority address was requeued by worker_error,
\* leased again and requeued by the sweeper when that lease expired; it waits
\* in P1
C36_Witness ==
    /\ sweeper.pc = "push_requeued"
    /\ sweeper.retries = 1
    /\ sweeper.wid # None
    /\ jobs[sweeper.jid].requested_by_ip \in PRIORITY_IPS
    /\ InQueue(job_queue_p1, sweeper.jid)
    /\ ~InQueue(job_queue_p0, sweeper.jid)

====
